---------------------------- MODULE Spec2Model ----------------------------
(***************************************************************************)
(* A model of ProjectMona's speech back end (src/mona-brain): the TTS      *)
(* manager's fallback cascade (tts_manager.py), the synthesis adapters and *)
(* their file cache in the shared audio directory (tts_sovits.py,          *)
(* tts_cartesia.py, tts_fishspeech.py, tts.py) and the text-based lip-sync *)
(* estimator (lip_sync.py).                                                *)
(*                                                                         *)
(* Conventions.  A text is a sequence of one-character strings.  Times are *)
(* integers: a duration is counted in units of 0.1 ms and a cue's start    *)
(* and end, which the code rounds to three decimals, in milliseconds.      *)
(* Floating-point error below the rounding step is not modelled.  md5 is   *)
(* modelled as collision-free: a hash is the string that was hashed.       *)
(***************************************************************************)
EXTENDS Integers, Sequences, FiniteSets, TLC

VARIABLES
    engines,    \* the adapter instances main.py builds: "none" (None), "mock" or "live"
    rhubarb,    \* LipSyncGenerator.is_available(): the alignment tool was found
    files,      \* the shared audio directory: file name -> content, for the files that exist
    pc,         \* where TTSManager.generate stands
    req,        \* the arguments of the running generate call
    attempts,   \* the _try_engine calls of the running generate call, in order
    audio_url,  \* generate's local audio_url
    lip_sync_data, \* generate's local lip_sync_data
    used_engine,   \* generate's local used_engine
    nreq,       \* number of generate calls started
    nrestart,   \* number of process restarts
    call,       \* the last direct adapter call: its arguments and what it returned
    ncall,      \* number of direct adapter operations done
    served,     \* the generate_speech calls that returned audio since the last clear_cache
    stored,     \* cache file -> the audio and the timeline the last generation stored under it
    estText,    \* estimator input: text
    estDur,     \* estimator input: audio_duration, in 0.1 ms
    estOut,     \* estimator output: Pending, NoTimeline or a timeline
    fpIn,       \* two fingerprint inputs a, b: backend, text, voice parameters
    fpOut,      \* <<>> until computed, then the two fingerprints
    mouthCues,  \* aligner input: the mouthCues the alignment tool printed
    toolOut,    \* aligner output: Pending, then the timeline converted from mouthCues
    shutdown,   \* the shutdown of the process, once it ran: the adapters it found, the close calls it made
    ws,         \* the websocket handler's TTS step: its position and its locals
    job,        \* one generate_lip_sync_async call: its position, its arguments, its temporary files
    tasks,      \* the generate_speech coroutines in flight on one adapter, by request
    wavFile,    \* duration probe input: the file at wav_path
    wavOut,     \* duration probe output: Unprobed, then the fraction returned
    pool        \* the Cartesia adapter's pooled session: _session, the sessions created, the coroutines using them

vars == <<engines, rhubarb, files, pc, req, attempts,
          audio_url, lip_sync_data, used_engine, nreq, nrestart,
          call, ncall, served, stored,
          estText, estDur, estOut, fpIn, fpOut, mouthCues, toolOut,
          shutdown, ws, job, tasks, wavFile, wavOut, pool>>

mgrVars == <<engines, rhubarb, files, pc, req, attempts,
             audio_url, lip_sync_data, used_engine, nreq, nrestart,
             call, ncall, served, stored>>
adapterVars == <<call, ncall, served, stored>>
estVars == <<estText, estDur, estOut>>
fpVars == <<fpIn, fpOut>>
alignVars == <<mouthCues, toolOut>>
sideVars == <<shutdown, ws>>
asyncVars == <<job, tasks>>
probeVars == <<wavFile, wavOut>>
auxVars == <<wavFile, wavOut, pool>>

\* Python's None, where a string is expected (an engine name).
None == "None"
\* Python's None, where a timeline (a list of cues) is expected.
NoTimeline == <<[start |-> -1, end |-> -1, shape |-> "None"]>>
\* A timeline not computed yet.
Pending == <<[start |-> -1, end |-> -1, shape |-> "pending"]>>
\* Python's None, where the path of an audio file is expected.
NoPath == [hash |-> <<>>, ext |-> "None"]
\* Python's None, where an audio URL is expected.
NoUrl == [prefix |-> "None", name |-> NoPath]
\* The directory with no file in it.
EmptyDir == [p \in {} |-> 0]
\* No generate call, no adapter call.
NoReq == [text |-> <<>>, pref |-> "None", lip |-> FALSE]
NoCall == [op |-> "None"]

\* The values the variables of a part of the model keep while another part
\* is explored.
MgrIdle ==
    /\ engines = [e \in {"sovits", "fishspeech", "cartesia", "openai"} |-> "none"]
    /\ rhubarb = FALSE
    /\ files = EmptyDir
    /\ pc = "idle"
    /\ req = NoReq
    /\ attempts = <<>>
    /\ audio_url = NoUrl
    /\ lip_sync_data = NoTimeline
    /\ used_engine = None
    /\ nreq = 0
    /\ nrestart = 0
    /\ call = NoCall
    /\ ncall = 0
    /\ served = {}
    /\ stored = EmptyDir

EstIdle == estText = <<>> /\ estDur = 0 /\ estOut = Pending
FpIdle == fpIn = None /\ fpOut = <<>>
AlignIdle == mouthCues = <<>> /\ toolOut = Pending

\* No shutdown has run yet.
NoShutdown == [found |-> {}, closed |-> <<>>, raised |-> None]
\* The websocket handler is not in its TTS step.
WsIdle ==
    [pc |-> "idle", n |-> 0, text |-> <<>>, tts_engine |-> None, lip |-> FALSE,
     calls |-> <<>>, audio_url |-> NoUrl, lip_sync_data |-> NoTimeline,
     used_engine |-> None]
SideIdle == shutdown = NoShutdown /\ ws = WsIdle

\* No generate_lip_sync_async call, no coroutine in flight.
NoJob == [pc |-> "none"]
AsyncIdle == job = NoJob /\ tasks = <<>>

\* No file probed, no Cartesia adapter in use.
NoWav ==
    [missing |-> TRUE, length |-> 0, fmt_size |-> 16, num_channels |-> 0,
     sample_rate |-> 0, bits_per_sample |-> 0, chunks |-> <<>>]
Unprobed == <<-1, 1>>
NoPool == [session |-> 0, created |-> <<>>, coros |-> <<>>, closes |-> <<>>]
AuxIdle == wavFile = NoWav /\ wavOut = Unprobed /\ pool = NoPool

-----------------------------------------------------------------------------
(* Bounds of the model. *)

\* Longest text given to the estimator.
MaxTextLen == 3
\* Longest audio duration given to the estimator, in 0.1 ms.
MaxDur == 24
\* Longest text given to the fingerprint.
MaxKeyTextLen == 2
\* Calls of TTSManager.generate in one behaviour.
MaxRequests == 2
\* Restarts of the process in one behaviour.
MaxRestarts == 1
\* Direct calls of the adapters in one behaviour.
MaxCalls == 4
\* Most mouth cues the alignment tool prints for one audio.
MaxCues == 3
\* Assistant responses the websocket handler speaks in one behaviour.
MaxResponses == 2
\* generate_speech coroutines in flight on one adapter in one behaviour.
MaxTasks == 2
\* Chunks after the fmt chunk in a probed WAV file.
MaxChunks == 2
\* Calls of close() on the Cartesia adapter in one behaviour.
MaxCloses == 2

-----------------------------------------------------------------------------
(* Texts. *)

RECURSIVE SeqsUpTo(_, _)
SeqsUpTo(S, n) ==
    IF n = 0 THEN {<<>>}
    ELSE LET shorter == SeqsUpTo(S, n - 1)
         IN  shorter \cup {Append(s, c) : s \in {t \in shorter : Len(t) = n - 1}, c \in S}

\* str.lower(), on the characters the model uses.
Lower(c) == IF c = "M" THEN "m" ELSE IF c = "A" THEN "a" ELSE c

-----------------------------------------------------------------------------
(* lip_sync.py: the text-based estimator. *)

\* GRAPHEME_TO_SHAPE; "none" for a character that is not a key.
GraphemeToShape(c) ==
    CASE c \in {"m", "b", "p"} -> "A"
      [] c \in {"k", "s", "t", "d", "n", "g", "z", "c", "j", "q", "x", "h"} -> "B"
      [] c \in {"e", "i", "y"} -> "C"
      [] c = "a" -> "D"
      [] c = "o" -> "E"
      [] c \in {"u", "w"} -> "F"
      [] c \in {"f", "v"} -> "G"
      [] c \in {"l", "r"} -> "H"
      [] OTHER -> "none"

\* The loop over text.lower(): a mapped letter gives its shape, a space gives
\* X, any other character is skipped.
RECURSIVE TextShapes(_)
TextShapes(text) ==
    IF text = <<>> THEN <<>>
    ELSE LET c == Lower(Head(text))
             rest == TextShapes(Tail(text))
         IN  IF GraphemeToShape(c) # "none" THEN <<GraphemeToShape(c)>> \o rest
             ELSE IF c = " " THEN <<"X">> \o rest
             ELSE rest

\* The merge loop: runs of one shape become one entry <<shape, count>>.
RECURSIVE MergeShapes(_, _)
MergeShapes(shapes, merged) ==
    IF shapes = <<>> THEN merged
    ELSE LET shape == Head(shapes)
             n == Len(merged)
         IN  IF n > 0 /\ merged[n][1] = shape
             THEN MergeShapes(Tail(shapes), [merged EXCEPT ![n] = <<shape, merged[n][2] + 1>>])
             ELSE MergeShapes(Tail(shapes), Append(merged, <<shape, 1>>))

\* count * (0.3 if shape == "X" else 1.0), in tenths.
CueWeight(entry) == entry[2] * (IF entry[1] = "X" THEN 3 ELSE 10)

\* A total that weighs a silence like a letter.
RECURSIVE SumWeightsUniform(_)
SumWeightsUniform(merged) ==
    IF merged = <<>> THEN 0 ELSE 10 * Head(merged)[2] + SumWeightsUniform(Tail(merged))

\* total_weight = sum(count * (0.3 if shape == "X" else 1.0) ...), in tenths.
RECURSIVE SumWeights(_)
SumWeights(merged) ==
    IF merged = <<>> THEN 0 ELSE CueWeight(Head(merged)) + SumWeights(Tail(merged))

\* round(x, 3) of x = num / den (in 0.1 ms), as milliseconds: nearest, ties to even.
RoundMs(num, den) ==
    LET d == 10 * den
        q == num \div d
        r == num % d
    IN  IF 2 * r < d THEN q
        ELSE IF 2 * r > d THEN q + 1
        ELSE IF q % 2 = 0 THEN q ELSE q + 1

\* The timing loop: current_time is cum * audio_duration / total_weight.
RECURSIVE LayOutCues(_, _, _, _)
LayOutCues(merged, cum, dur, total) ==
    IF merged = <<>> THEN <<>>
    ELSE LET endCum == cum + CueWeight(Head(merged))
         IN  <<[start |-> RoundMs(cum * dur, total),
                end |-> RoundMs(endCum * dur, total),
                shape |-> Head(merged)[1]]>>
             \o LayOutCues(Tail(merged), endCum, dur, total)

\* generate_lip_sync_from_text(text, audio_duration).  A cue's "phonemes" is
\* RHUBARB_TO_VRM[shape], a function of the shape, and is left out.
generate_lip_sync_from_text(text, audio_duration) ==
    IF text = <<>> \/ audio_duration <= 0 THEN NoTimeline
    ELSE LET shapes == TextShapes(text)
             merged == MergeShapes(shapes, <<>>)
             total_weight == SumWeights(merged)
         IN  IF shapes = <<>> THEN NoTimeline
             ELSE IF total_weight = 0 THEN NoTimeline
             ELSE LayOutCues(merged, 0, audio_duration, total_weight)

-----------------------------------------------------------------------------
(* The adapters' cache keys (_get_cache_path, _get_lip_sync_cache_path). *)

Backends == {"sovits", "fishspeech", "cartesia", "openai"}

\* The backend tag an adapter appends to the hashed string; sovits and openai
\* append none.
BackendTag(backend) ==
    CASE backend = "fishspeech" -> <<"_", "f", "i", "s", "h", "s", "p", "e", "e", "c", "h">>
      [] backend = "cartesia" -> <<"_", "c", "a", "r", "t", "e", "s", "i", "a">>
      [] OTHER -> <<>>

\* The f-string that is hashed.  p1, p2 are the adapter's two voice
\* parameters as the f-string renders them:
\*   sovits, fishspeech  f"{text}_{ref_audio_path}_{speed_factor}[_fishspeech]"
\*   cartesia            f"{text}_{model_id}_{voice_id}_cartesia"
\*   openai              f"{text}_{voice}_{model}"
KeyString(backend, text, p1, p2) ==
    text \o <<"_">> \o p1 \o <<"_">> \o p2 \o BackendTag(backend)

\* hashlib.md5(...).hexdigest(), taken to be collision-free.
Md5Hex(s) == s

\* A key string that leaves the backend out for every adapter.
TextHashUntagged(backend, text, p1, p2) == Md5Hex(text \o <<"_">> \o p1 \o <<"_">> \o p2)

\* The fingerprint: text_hash.
TextHash(backend, text, p1, p2) == Md5Hex(KeyString(backend, text, p1, p2))

\* The audio format of the adapter's cache file as the manager calls it
\* (convert_to_mp3 left False): sovits and cartesia wav, fishspeech and openai mp3.
OutputFormat(backend) == IF backend \in {"sovits", "cartesia"} THEN "wav" ELSE "mp3"

\* _get_cache_path: audio_dir / f"{text_hash}.{format}".
CachePath(backend, text, p1, p2) ==
    [hash |-> TextHash(backend, text, p1, p2), ext |-> OutputFormat(backend)]

\* _get_lip_sync_cache_path: audio_dir / f"{text_hash}.lipsync.json".
LipSyncCachePath(backend, text, p1, p2) ==
    [hash |-> TextHash(backend, text, p1, p2), ext |-> "lipsync.json"]

-----------------------------------------------------------------------------
(* tts_preprocess.py: clean_for_tts, on the characters the model's texts    *)
(* use (letters, the space, parentheses).  Of its rules only two change     *)
(* such a text: rule 10 removes every "(...)", rule 18 collapses runs of    *)
(* white space and strips the ends.                                         *)

\* not text or not text.strip()
IsBlank(text) == \A i \in 1..Len(text) : text[i] = " "

\* re.sub(r'\([^)]*\)', '', text)
RECURSIVE RemoveParens(_)
RemoveParens(text) ==
    IF text = <<>> THEN <<>>
    ELSE IF Head(text) = "(" /\ \E k \in 2..Len(text) : text[k] = ")"
         THEN LET close == CHOOSE k \in 2..Len(text) :
                               /\ text[k] = ")"
                               /\ \A m \in 2..(k - 1) : text[m] # ")"
              IN  RemoveParens(SubSeq(text, close + 1, Len(text)))
         ELSE <<Head(text)>> \o RemoveParens(Tail(text))

\* re.sub(r'\s+', ' ', text)
RECURSIVE CollapseSpaces(_)
CollapseSpaces(text) ==
    IF Len(text) < 2 THEN text
    ELSE IF text[1] = " " /\ text[2] = " " THEN CollapseSpaces(Tail(text))
    ELSE <<Head(text)>> \o CollapseSpaces(Tail(text))

\* text.strip(), after the collapse: at most one space at either end.
Strip(text) ==
    LET a == IF text # <<>> /\ Head(text) = " " THEN Tail(text) ELSE text
    IN  IF a # <<>> /\ a[Len(a)] = " " THEN SubSeq(a, 1, Len(a) - 1) ELSE a

clean_for_tts(text) ==
    IF text = <<>> THEN <<>> ELSE Strip(CollapseSpaces(RemoveParens(text)))

-----------------------------------------------------------------------------
(* The audio directory.  All adapters are built with the default audio_dir  *)
(* "assets/audio_cache" (main.py), so they share one directory.  A file is  *)
(* [bytes, dur, json]: the audio content, the duration its WAV header       *)
(* gives (0: none, or malformed), and, for a .lipsync.json, its text.       *)

Exists(fs, path) == path \in DOMAIN fs
WriteFile(fs, path, content) ==
    [q \in (DOMAIN fs) \cup {path} |-> IF q = path THEN content ELSE fs[q]]
Unlink(fs, paths) == [q \in (DOMAIN fs) \ paths |-> fs[q]]

AudioFile(bytes, dur) == [bytes |-> bytes, dur |-> dur, json |-> <<>>]
JsonFile(json) == [bytes |-> 0, dur |-> 0, json |-> json]

\* json.dumps / json.loads of a timeline: a cue is written as its three values.
JsonDumps(tl) == [i \in 1..Len(tl) |-> <<tl[i].start, tl[i].end, tl[i].shape>>]
JsonLoads(json) ==
    [i \in 1..Len(json) |-> [start |-> json[i][1], end |-> json[i][2], shape |-> json[i][3]]]

\* A file that cannot be read as what it should hold: an audio file with no
\* audio in it, a .lipsync.json whose text json.loads rejects.
CorruptJson == <<<<-1, -1, "corrupt">>>>
CorruptAudio == AudioFile(0, 0)
Corrupted(path) == IF path.ext = "lipsync.json" THEN JsonFile(CorruptJson) ELSE CorruptAudio
IsCorrupt(fs, path) == Exists(fs, path) /\ fs[path] = Corrupted(path)

\* Python truth of a timeline: None and [] are false.
Truthy(tl) == tl # NoTimeline /\ tl # <<>>

\* A probe that takes an unreadable header for a tenth of a millisecond.
WavDurationDefaulted(fs, path) ==
    IF Exists(fs, path) /\ fs[path].dur > 0 THEN fs[path].dur ELSE 1

\* get_wav_duration(path): the header's duration; 0.0 when it cannot be read.
get_wav_duration(fs, path) == IF Exists(fs, path) THEN fs[path].dur ELSE 0

-----------------------------------------------------------------------------
(* lip_sync.py: the aligner's result (generate_lip_sync_async).  The tool's *)
(* run is an outcome of the environment: it fails, or prints mouth cues.    *)

\* A conversion that gives every cue the 0.1 s of the last one.
ToolTimelineFixedLength(mouth_cues) ==
    [i \in 1..Len(mouth_cues) |->
        [start |-> mouth_cues[i].start,
         end |-> mouth_cues[i].start + 100,
         shape |-> mouth_cues[i].value]]

\* The conversion of the tool's mouthCues (lines 312-328): a cue ends where
\* the next one starts, the last one 0.1 s after its start.  Times in ms.
ToolTimeline(mouth_cues) ==
    [i \in 1..Len(mouth_cues) |->
        [start |-> mouth_cues[i].start,
         end |-> IF i + 1 <= Len(mouth_cues) THEN mouth_cues[i + 1].start
                 ELSE mouth_cues[i].start + 100,
         shape |-> mouth_cues[i].value]]

SampleCues == <<[value |-> "X", start |-> 0], [value |-> "B", start |-> 50],
                [value |-> "C", start |-> 120]>>

generate_lip_sync_async(align) ==
    CASE align = "fail" -> NoTimeline
      [] align = "empty" -> ToolTimeline(<<>>)
      [] OTHER -> ToolTimeline(SampleCues)

-----------------------------------------------------------------------------
(* The adapters' generate_speech.  env is what the environment does during  *)
(* the call:                                                                *)
(*   fs_error  an OSError before the adapter's try block (cache_path        *)
(*             .exists(), or fishspeech's open() of the reference audio)    *)
(*   net       "ok": status 200 with audio; "status": another status;       *)
(*             "error": the request raises (connection error, timeout)      *)
(*   bytes, dur  the audio returned, and the duration in its header         *)
(*   ref       fishspeech's reference audio: "ok" or "missing"              *)
(*   convert   openai's ffmpeg run: "ok", "fail" (exit code), "timeout"     *)
(*   align     the alignment tool: "fail", "empty", "cues"                  *)
(* The result is [files, path, lip, posted, hit]: the directory afterwards, *)
(* the tuple returned, whether a provider request was sent and whether the  *)
(* cache served the call.                                                   *)

Ret(fs, path, lip, sent, hit) ==
    [files |-> fs, path |-> path, lip |-> lip, posted |-> sent, hit |-> hit]

\* return None, None
Failed(fs, sent) == Ret(fs, NoPath, NoTimeline, sent, FALSE)

\* The adapters' voice parameters as main.py builds them (lifespan): sovits
\* and fishspeech share the default ref_audio_path and differ in speed_factor.
AdapterP1(backend) ==
    CASE backend = "sovits" -> <<"r">>
      [] backend = "fishspeech" -> <<"r">>
      [] backend = "cartesia" -> <<"s">>
      [] OTHER -> <<"n">>
AdapterP2(backend) ==
    CASE backend = "sovits" -> <<"1", ".", "3">>
      [] backend = "fishspeech" -> <<"1", ".", "0">>
      [] backend = "cartesia" -> <<"v">>
      [] OTHER -> <<"t">>

cache_path(backend, text) == CachePath(backend, text, AdapterP1(backend), AdapterP2(backend))
lip_sync_cache_path(backend, text) ==
    LipSyncCachePath(backend, text, AdapterP1(backend), AdapterP2(backend))

\* A lookup that never finds the file.
CacheHitNever(fs, backend, text, use_cache) == FALSE

\* use_cache and cache_path.exists()
CacheHit(fs, backend, text, use_cache) == use_cache /\ Exists(fs, cache_path(backend, text))

\* The cache-hit branch: the cached path, and the cached timeline if its
\* file exists and json.loads accepts it (`except Exception: pass` leaves
\* lip_sync_data None).
CacheLookup(fs, backend, text) ==
    LET lp == lip_sync_cache_path(backend, text)
    IN  Ret(fs, cache_path(backend, text),
            IF Exists(fs, lp) /\ fs[lp].json # CorruptJson
            THEN JsonLoads(fs[lp].json) ELSE NoTimeline,
            FALSE, TRUE)

\* if lip_sync_data: lip_sync_cache_path.write_text(json.dumps(lip_sync_data))
StoreLipSync(fs, backend, text, lip) ==
    IF Truthy(lip) THEN WriteFile(fs, lip_sync_cache_path(backend, text), JsonFile(JsonDumps(lip)))
    ELSE fs

\* MonaTTSSoVITS.generate_speech and MonaTTSCartesia.generate_speech
\* (convert_to_mp3 False, preprocess True).
EstimatingSpeech(backend, mode, fs, rawText, use_cache, lip, env) ==
    IF IsBlank(rawText) THEN Failed(fs, FALSE)
    ELSE LET text == clean_for_tts(rawText)
         IN  IF IsBlank(text) THEN Failed(fs, FALSE)
             ELSE IF CacheHit(fs, backend, text, use_cache) THEN CacheLookup(fs, backend, text)
             ELSE IF mode = "mock" THEN Failed(fs, FALSE)
             ELSE IF env.net # "ok" THEN Failed(fs, TRUE)
             ELSE LET cp == cache_path(backend, text)
                      fs1 == WriteFile(fs, cp, AudioFile(env.bytes, env.dur))
                      audio_duration == get_wav_duration(fs1, cp)
                      tl == IF lip /\ audio_duration > 0
                            THEN generate_lip_sync_from_text(text, audio_duration)
                            ELSE NoTimeline
                  IN  Ret(StoreLipSync(fs1, backend, text, tl), cp, tl, TRUE, FALSE)

\* MonaTTSFishSpeech.generate_speech.
FishSpeech(mode, aligner, fs, rawText, use_cache, lip, env) ==
    IF IsBlank(rawText) THEN Failed(fs, FALSE)
    ELSE LET text == clean_for_tts(rawText)
         IN  IF IsBlank(text) THEN Failed(fs, FALSE)
             ELSE IF CacheHit(fs, "fishspeech", text, use_cache)
                  THEN CacheLookup(fs, "fishspeech", text)
             ELSE IF mode = "mock" THEN Failed(fs, FALSE)
             ELSE IF env.ref # "ok" THEN Failed(fs, FALSE)
             ELSE IF env.net # "ok" THEN Failed(fs, TRUE)
             ELSE LET cp == cache_path("fishspeech", text)
                      fs1 == WriteFile(fs, cp, AudioFile(env.bytes, 0))
                      tl == IF lip /\ aligner THEN generate_lip_sync_async(env.align)
                            ELSE NoTimeline
                  IN  Ret(StoreLipSync(fs1, "fishspeech", text, tl), cp, tl, TRUE, FALSE)

\* MonaTTS.generate_speech (OpenAI): no cleaning, no mock mode.
OpenAISpeech(aligner, fs, text, use_cache, lip, env) ==
    IF IsBlank(text) THEN Failed(fs, FALSE)
    ELSE IF CacheHit(fs, "openai", text, use_cache) THEN CacheLookup(fs, "openai", text)
    ELSE IF env.net # "ok" THEN Failed(fs, TRUE)
    ELSE LET cp == cache_path("openai", text)
             fs1 == WriteFile(fs, cp, AudioFile(env.bytes, 0))
         IN  IF lip /\ aligner
             THEN \* use_wav_workflow
                  IF env.convert = "timeout" THEN Failed(fs1, TRUE)
                  ELSE IF env.convert = "fail" THEN Ret(fs1, cp, NoTimeline, TRUE, FALSE)
                  ELSE LET tl == generate_lip_sync_async(env.align)
                       IN  Ret(StoreLipSync(fs1, "openai", text, tl), cp, tl, TRUE, FALSE)
             ELSE Ret(fs1, cp, NoTimeline, TRUE, FALSE)

\* instance.generate_speech(text, use_cache, generate_lip_sync) of the adapter
\* of one backend.
generate_speech(backend, mode, aligner, fs, text, use_cache, lip, env) ==
    CASE backend \in {"sovits", "cartesia"} ->
             EstimatingSpeech(backend, mode, fs, text, use_cache, lip, env)
      [] backend = "fishspeech" -> FishSpeech(mode, aligner, fs, text, use_cache, lip, env)
      [] OTHER -> OpenAISpeech(aligner, fs, text, use_cache, lip, env)

\* clear_cache: sovits, cartesia and fishspeech unlink every *.mp3 and *.wav
\* of the directory, openai every *.mp3.
clear_cache(backend, fs) ==
    LET exts == IF backend = "openai" THEN {"mp3"} ELSE {"mp3", "wav"}
    IN  Unlink(fs, {q \in DOMAIN fs : q.ext \in exts})

\* What the environment may do during one call of a backend's adapter.
Env(fs_error, net, dur, ref, convert, align) ==
    [fs_error |-> fs_error, net |-> net, bytes |-> 1, dur |-> dur,
     ref |-> ref, convert |-> convert, align |-> align]

\* A header that gives 1.2345 s, and a malformed one.
AudioDurs == {0, 12345}

Envs(backend) ==
    {Env(TRUE, "error", 0, "ok", "ok", "fail")}
    \cup {Env(FALSE, net, 0, "ok", "ok", "fail") : net \in {"status", "error"}}
    \cup CASE backend \in {"sovits", "cartesia"} ->
                  {Env(FALSE, "ok", d, "ok", "ok", "fail") : d \in AudioDurs}
           [] backend = "fishspeech" ->
                  {Env(FALSE, "ok", 0, "missing", "ok", "fail")}
                  \cup {Env(FALSE, "ok", 0, "ok", "ok", a) : a \in {"fail", "empty", "cues"}}
           [] OTHER ->
                  {Env(FALSE, "ok", 0, "ok", c, "fail") : c \in {"fail", "timeout"}}
                  \cup {Env(FALSE, "ok", 0, "ok", "ok", a) : a \in {"fail", "empty", "cues"}}

-----------------------------------------------------------------------------
(* tts_manager.py: TTSManager. *)

\* A URL that is the file's name alone.
AudioUrlBare(path) == [prefix |-> "", name |-> path]

\* f"/audio/{Path(audio_path).name}"
AudioUrl(path) == [prefix |-> "/audio/", name |-> path]

\* _get_engine that checks no mock_mode at all.
GetEngineUnchecked(engine) ==
    IF engine \in Backends THEN engines[engine] ELSE "none"

\* _get_engine(engine): the instance ("none" for None).  mock_mode is
\* checked for fishspeech and cartesia only.
GetEngine(engine) ==
    CASE engine = "sovits" -> engines["sovits"]
      [] engine = "fishspeech" ->
             IF engines["fishspeech"] = "live" THEN "live" ELSE "none"
      [] engine = "cartesia" ->
             IF engines["cartesia"] = "live" THEN "live" ELSE "none"
      [] engine = "openai" -> engines["openai"]
      [] OTHER -> "none"

\* One _try_engine call: the engine asked for; how its generate_speech went
\* ("none": no instance, not called; "raised": an exception, caught;
\* "returned"); whether it sent a provider request or was served by the
\* cache; the pair returned and the directory afterwards.
Attempt(engine, how, r, url, lip) ==
    [engine |-> engine, how |-> how, posted |-> r.posted, hit |-> r.hit,
     path |-> r.path, url |-> url, lip |-> lip, files |-> r.files]

\* The entry of an attempt in the call's log: the engine asked for, what its
\* adapter did, and the audio path and the timeline _try_engine returned.
LogEntry(a) ==
    [engine |-> a.engine, how |-> a.how, posted |-> a.posted, hit |-> a.hit,
     path |-> a.path, lip |-> a.lip]

\* A _try_engine that builds the URL of whatever the adapter returned.
TryEngineUnchecked(engine, text, generate_lip_sync, env) ==
    LET instance == GetEngine(engine)
        r == generate_speech(engine, instance, rhubarb, files, text, TRUE,
                             generate_lip_sync, env)
    IN  IF instance = "none" THEN Attempt(engine, "none", Failed(files, FALSE), NoUrl, NoTimeline)
        ELSE IF env.fs_error THEN Attempt(engine, "raised", Failed(files, FALSE), NoUrl, NoTimeline)
        ELSE Attempt(engine, "returned", r, AudioUrl(r.path), r.lip)

\* _try_engine(engine, text, generate_lip_sync): (audio_url, lip_sync) of the
\* engine's adapter, (None, None) when there is no instance, no audio or an
\* exception.
TryEngine(engine, text, generate_lip_sync, env) ==
    LET instance == GetEngine(engine)
        r == generate_speech(engine, instance, rhubarb, files, text, TRUE,
                             generate_lip_sync, env)
    IN  IF instance = "none" THEN Attempt(engine, "none", Failed(files, FALSE), NoUrl, NoTimeline)
        ELSE IF env.fs_error THEN Attempt(engine, "raised", Failed(files, FALSE), NoUrl, NoTimeline)
        ELSE IF r.path # NoPath THEN Attempt(engine, "returned", r, AudioUrl(r.path), r.lip)
        ELSE Attempt(engine, "returned", r, NoUrl, NoTimeline)

\* A fallback guard that forgets the audio already obtained.
NeedsFallbackAlways(engine) == req.pref # engine

\* A fallback guard that forgets which engine was requested.
NeedsFallbackEvenIfPreferred(engine) == audio_url = NoUrl

\* if not audio_url and engine_preference != "<engine>"
NeedsFallback(engine) == audio_url = NoUrl /\ req.pref # engine

\* A fallback that sets no label.
FallbackLabelMissing(engine) == None

\* A label that leaves the fallback out.
FallbackLabelPlain(engine) == engine

\* used_engine = "sovits (fallback)", used_engine = "openai (fallback)"
FallbackLabel(engine) ==
    IF engine = "sovits" THEN "sovits (fallback)" ELSE "openai (fallback)"

\* The engine names a caller may ask for: the four backends and a name
\* _get_engine does not know.
EngineNames == Backends \cup {"cosyvoice"}
EnvsOf(engine) == IF engine \in Backends THEN Envs(engine) ELSE Envs("sovits")

\* The texts callers send.
ReqTexts == {<<"h", "i">>, <<" ">>}

\* The adapters initialize() may be given: every one may be missing (None),
\* sovits, fishspeech and cartesia may be in mock mode (MonaTTS has none).
EngineConfigs ==
    {c \in [Backends -> {"none", "mock", "live"}] : c["openai"] # "mock"}

Init ==
    /\ engines \in EngineConfigs
    /\ rhubarb \in BOOLEAN
    /\ files = EmptyDir
    /\ pc = "idle"
    /\ req = NoReq
    /\ attempts = <<>>
    /\ audio_url = NoUrl
    /\ lip_sync_data = NoTimeline
    /\ used_engine = None
    /\ nreq = 0
    /\ nrestart = 0
    /\ call = NoCall
    /\ ncall = 0
    /\ served = {}
    /\ stored = EmptyDir
    /\ EstIdle
    /\ FpIdle
    /\ AlignIdle
    /\ SideIdle
    /\ AsyncIdle
    /\ AuxIdle

\* generate is called: lines 50-53.
Start(text, engine_preference, generate_lip_sync) ==
    /\ pc \in {"idle", "done"}
    /\ nreq < MaxRequests
    /\ pc' = "preferred"
    /\ req' = [text |-> text, pref |-> engine_preference, lip |-> generate_lip_sync]
    /\ attempts' = <<>>
    /\ audio_url' = NoUrl
    /\ lip_sync_data' = NoTimeline
    /\ used_engine' = None
    /\ nreq' = nreq + 1
    /\ UNCHANGED <<engines, rhubarb, files, nrestart, adapterVars, estVars, fpVars, alignVars, sideVars, asyncVars, auxVars>>

\* Lines 55-60: try the requested engine first.
TryPreferred ==
    /\ pc = "preferred"
    /\ \E env \in EnvsOf(req.pref) :
          LET a == TryEngine(req.pref, req.text, req.lip, env)
          IN  /\ files' = a.files
              /\ attempts' = Append(attempts, LogEntry(a))
              /\ audio_url' = a.url
              /\ lip_sync_data' = a.lip
              /\ used_engine' = IF a.url # NoUrl THEN req.pref ELSE used_engine
    /\ pc' = "sovits"
    /\ UNCHANGED <<engines, rhubarb, req, nreq, nrestart, adapterVars, estVars, fpVars, alignVars, sideVars, asyncVars, auxVars>>

\* Lines 62-68: fall back to sovits if the requested engine failed.
FallbackSovits ==
    /\ pc = "sovits"
    /\ IF NeedsFallback("sovits")
       THEN \E env \in Envs("sovits") :
                LET a == TryEngine("sovits", req.text, req.lip, env)
                IN  /\ files' = a.files
                    /\ attempts' = Append(attempts, LogEntry(a))
                    /\ audio_url' = a.url
                    /\ lip_sync_data' = a.lip
                    /\ used_engine' = IF a.url # NoUrl THEN FallbackLabel("sovits") ELSE used_engine
       ELSE UNCHANGED <<files, attempts, audio_url, lip_sync_data, used_engine>>
    /\ pc' = "openai"
    /\ UNCHANGED <<engines, rhubarb, req, nreq, nrestart, adapterVars, estVars, fpVars, alignVars, sideVars, asyncVars, auxVars>>

\* Lines 70-88: fall back to openai as last resort, and return.
FallbackOpenai ==
    /\ pc = "openai"
    /\ IF NeedsFallback("openai")
       THEN \E env \in Envs("openai") :
                LET a == TryEngine("openai", req.text, req.lip, env)
                IN  /\ files' = a.files
                    /\ attempts' = Append(attempts, LogEntry(a))
                    /\ audio_url' = IF a.url # NoUrl THEN a.url ELSE audio_url
                    /\ used_engine' = IF a.url # NoUrl THEN FallbackLabel("openai") ELSE used_engine
                    /\ lip_sync_data' =
                           IF a.url # NoUrl /\ ~Truthy(lip_sync_data) /\ Truthy(a.lip)
                           THEN a.lip ELSE lip_sync_data
       ELSE UNCHANGED <<files, attempts, audio_url, lip_sync_data, used_engine>>
    /\ pc' = "done"
    /\ UNCHANGED <<engines, rhubarb, req, nreq, nrestart, adapterVars, estVars, fpVars, alignVars, sideVars, asyncVars, auxVars>>

\* The adapter classes that define a close method: MonaTTSCartesia alone
\* (tts_cartesia.py 61-65); MonaTTSSoVITS, MonaTTSFishSpeech and MonaTTS
\* define none.
HasClose(adapter) == adapter = "cartesia"

\* The adapters lifespan closes after the yield, in the order of its
\* statements: main.py 249-257.
CloseOrder == <<"sovits", "fishspeech", "cartesia">>

\* The statements of lines 249-257, run in order on the instances that
\* exist: `await <adapter>.close()` on an instance whose class has no close
\* raises AttributeError, which nothing in lifespan catches, so the
\* statements after it do not run.
RECURSIVE CloseAll(_, _, _)
CloseAll(order, instances, closed) ==
    IF order = <<>> THEN [closed |-> closed, raised |-> None]
    ELSE IF instances[Head(order)] = "none"
         THEN CloseAll(Tail(order), instances, closed)
         ELSE IF HasClose(Head(order))
              THEN CloseAll(Tail(order), instances, Append(closed, Head(order)))
              ELSE [closed |-> closed, raised |-> Head(order)]

\* The process is stopped (main.py lifespan, after the yield): the adapters
\* are closed, they and the manager's state are gone, the audio directory is
\* kept.
Shutdown ==
    /\ pc \in {"idle", "done"}
    /\ nrestart < MaxRestarts
    /\ engines' = [e \in Backends |-> "none"]
    /\ rhubarb' = FALSE
    /\ pc' = "down"
    /\ req' = NoReq
    /\ attempts' = <<>>
    /\ audio_url' = NoUrl
    /\ lip_sync_data' = NoTimeline
    /\ used_engine' = None
    /\ nrestart' = nrestart + 1
    /\ shutdown' = LET c == CloseAll(CloseOrder, engines, <<>>)
                   IN  [found |-> {e \in Backends : engines[e] # "none"},
                        closed |-> c.closed, raised |-> c.raised]
    /\ UNCHANGED <<files, nreq, adapterVars, estVars, fpVars, alignVars, ws, asyncVars, auxVars>>

\* The process is started again: lifespan builds the adapters anew (main.py
\* lines 148-185).
Startup ==
    /\ pc = "down"
    /\ engines' \in EngineConfigs
    /\ rhubarb' \in BOOLEAN
    /\ pc' = "idle"
    /\ shutdown' = NoShutdown
    /\ UNCHANGED <<files, req, attempts, audio_url, lip_sync_data, used_engine,
                   nreq, nrestart, adapterVars, estVars, fpVars, alignVars, ws, asyncVars, auxVars>>

Next ==
    \/ \E text \in ReqTexts, engine \in EngineNames, lip \in BOOLEAN : Start(text, engine, lip)
    \/ TryPreferred
    \/ FallbackSovits
    \/ FallbackOpenai

Spec == Init /\ [][Next]_vars

\* generate called with the texts that hold nothing to speak: the empty
\* text, white space, and an action marker, which clean_for_tts removes.
BlankTexts == {<<>>, <<" ">>, <<"(", "h", ")">>}

NextBlank ==
    \/ \E text \in BlankTexts, engine \in EngineNames, lip \in BOOLEAN : Start(text, engine, lip)
    \/ TryPreferred
    \/ FallbackSovits
    \/ FallbackOpenai

SpecBlank == Init /\ [][NextBlank]_vars

\* The same, over several runs of the process.
NextRestart ==
    \/ Next
    \/ Shutdown
    \/ Startup

SpecRestart == Init /\ [][NextRestart]_vars

-----------------------------------------------------------------------------
(* main.py: the websocket handler's TTS step for one assistant response     *)
(* (websocket_endpoint, lines 764-831), which calls the adapters itself.     *)

\* text_utils.py: the characters \b takes for part of a word.
IsWordChar(c) == c \notin {" ", "(", ")", ".", ",", "!", "?"}

\* The length of the word a text starts with.
RECURSIVE WordLen(_)
WordLen(text) ==
    IF text = <<>> \/ ~IsWordChar(Head(text)) THEN 0 ELSE 1 + WordLen(Tail(text))

\* The replacements of preprocess_tts_text applied to one whole word:
\* \btch\b -> tsk, then \baww+\b -> awe, both ignoring case.
ReplaceWord(word) ==
    LET low == [i \in 1..Len(word) |-> Lower(word[i])]
    IN  IF low = <<"t", "c", "h">> THEN <<"t", "s", "k">>
        ELSE IF Len(low) >= 3 /\ low[1] = "a" /\ \A i \in 2..Len(low) : low[i] = "w"
             THEN <<"a", "w", "e">>
             ELSE word

\* preprocess_tts_text(text): text_utils.py 10-35.
RECURSIVE preprocess_tts_text(_)
preprocess_tts_text(text) ==
    IF text = <<>> THEN <<>>
    ELSE IF ~IsWordChar(Head(text)) THEN <<Head(text)>> \o preprocess_tts_text(Tail(text))
    ELSE LET n == WordLen(text)
         IN  ReplaceWord(SubSeq(text, 1, n))
                 \o preprocess_tts_text(SubSeq(text, n + 1, Len(text)))

\* The responses the LLM completes with.
WsContents == {<<"t", "c", "h">>, <<" ">>}

\* One `await <adapter>.generate_speech(tts_text, generate_lip_sync=
\* use_lip_sync)` of the handler: what the adapter did and returned.
WsCall(engine, env) ==
    LET r == generate_speech(engine, engines[engine], rhubarb, files, ws.text, TRUE,
                             ws.lip, env)
    IN  [engine |-> engine, raised |-> env.fs_error, posted |-> r.posted, hit |-> r.hit,
         path |-> r.path, lip |-> r.lip, files |-> r.files]

\* The entry of a call in the response's log.
WsLogEntry(c) ==
    [engine |-> c.engine, raised |-> c.raised, posted |-> c.posted, hit |-> c.hit,
     path |-> c.path]

\* An exception of generate_speech leaves the cascade for the handler's
\* `except Exception` (line 869): the apology is sent instead.
WsRaised(c) ==
    ws' = [ws EXCEPT !.pc = "error", !.calls = Append(ws.calls, WsLogEntry(c))]

\* Lines 764-772: the LLM's stream completes; the locals are reset and the
\* text is prepared.  A blank text skips the cascade.
WsComplete(mona_content, tts_engine, use_lip_sync) ==
    /\ ws.pc \in {"idle", "sent", "error"}
    /\ ws.n < MaxResponses
    /\ LET tts_text == preprocess_tts_text(mona_content)
       IN  ws' = [pc |-> IF IsBlank(tts_text) THEN "send" ELSE "selected",
                  n |-> ws.n + 1, text |-> tts_text, tts_engine |-> tts_engine,
                  lip |-> use_lip_sync, calls |-> <<>>, audio_url |-> NoUrl,
                  lip_sync_data |-> NoTimeline, used_engine |-> None]
    /\ UNCHANGED <<mgrVars, estVars, fpVars, alignVars, shutdown, asyncVars, auxVars>>

\* The engine lines 774-790 select: the one asked for if its instance exists
\* (and, for fishspeech and cartesia, is not in mock mode), else none.
WsSelectedEngine ==
    CASE ws.tts_engine = "fishspeech" /\ engines["fishspeech"] = "live" -> "fishspeech"
      [] ws.tts_engine = "cartesia" /\ engines["cartesia"] = "live" -> "cartesia"
      [] ws.tts_engine = "sovits" /\ engines["sovits"] # "none" -> "sovits"
      [] OTHER -> None

\* Lines 774-790: use the selected engine.
WsSelected ==
    /\ ws.pc = "selected"
    /\ IF WsSelectedEngine = None
       THEN ws' = [ws EXCEPT !.pc = "sovits"] /\ UNCHANGED files
       ELSE \E env \in Envs(WsSelectedEngine) :
                LET c == WsCall(WsSelectedEngine, env)
                IN  IF c.raised THEN WsRaised(c) /\ UNCHANGED files
                    ELSE /\ files' = c.files
                         /\ ws' = [ws EXCEPT
                                !.pc = "sovits",
                                !.calls = Append(ws.calls, WsLogEntry(c)),
                                !.lip_sync_data = c.lip,
                                !.used_engine = WsSelectedEngine,
                                !.audio_url = IF c.path # NoPath THEN AudioUrl(c.path)
                                              ELSE ws.audio_url]
    /\ UNCHANGED <<engines, rhubarb, pc, req, attempts, audio_url, lip_sync_data,
                   used_engine, nreq, nrestart, adapterVars, estVars, fpVars, alignVars,
                   shutdown, asyncVars, auxVars>>

\* Lines 792-797: fall back to sovits if the selected engine failed.
WsFallbackSovits ==
    /\ ws.pc = "sovits"
    /\ IF ws.audio_url = NoUrl /\ engines["sovits"] # "none"
       THEN \E env \in Envs("sovits") :
                LET c == WsCall("sovits", env)
                IN  IF c.raised THEN WsRaised(c) /\ UNCHANGED files
                    ELSE /\ files' = c.files
                         /\ ws' = [ws EXCEPT
                                !.pc = "openai",
                                !.calls = Append(ws.calls, WsLogEntry(c)),
                                !.lip_sync_data = c.lip,
                                !.used_engine = "sovits",
                                !.audio_url = IF c.path # NoPath THEN AudioUrl(c.path)
                                              ELSE ws.audio_url]
       ELSE ws' = [ws EXCEPT !.pc = "openai"] /\ UNCHANGED files
    /\ UNCHANGED <<engines, rhubarb, pc, req, attempts, audio_url, lip_sync_data,
                   used_engine, nreq, nrestart, adapterVars, estVars, fpVars, alignVars,
                   shutdown, asyncVars, auxVars>>

\* Lines 799-806: fall back to OpenAI as last resort.
WsFallbackOpenai ==
    /\ ws.pc = "openai"
    /\ IF ws.audio_url = NoUrl /\ engines["openai"] # "none"
       THEN \E env \in Envs("openai") :
                LET c == WsCall("openai", env)
                IN  IF c.raised THEN WsRaised(c) /\ UNCHANGED files
                    ELSE /\ files' = c.files
                         /\ ws' = [ws EXCEPT
                                !.pc = "send",
                                !.calls = Append(ws.calls, WsLogEntry(c)),
                                !.used_engine = "openai",
                                !.audio_url = IF c.path # NoPath THEN AudioUrl(c.path)
                                              ELSE ws.audio_url,
                                !.lip_sync_data =
                                    IF c.path # NoPath /\ ~Truthy(ws.lip_sync_data)
                                       /\ Truthy(c.lip)
                                    THEN c.lip ELSE ws.lip_sync_data]
       ELSE ws' = [ws EXCEPT !.pc = "send"] /\ UNCHANGED files
    /\ UNCHANGED <<engines, rhubarb, pc, req, attempts, audio_url, lip_sync_data,
                   used_engine, nreq, nrestart, adapterVars, estVars, fpVars, alignVars,
                   shutdown, asyncVars, auxVars>>

\* Lines 808-831: the response message is sent with audioUrl and lipSync.
WsSend ==
    /\ ws.pc = "send"
    /\ ws' = [ws EXCEPT !.pc = "sent"]
    /\ UNCHANGED <<mgrVars, estVars, fpVars, alignVars, shutdown, asyncVars, auxVars>>

NextWebsocket ==
    \/ \E content \in WsContents, engine \in EngineNames, lip \in BOOLEAN :
           WsComplete(content, engine, lip)
    \/ WsSelected
    \/ WsFallbackSovits
    \/ WsFallbackOpenai
    \/ WsSend

SpecWebsocket == Init /\ [][NextWebsocket]_vars

-----------------------------------------------------------------------------
(* The adapters called directly, as test_sovits.py and precache_voices.py   *)
(* do: generate_speech with use_cache either way, and clear_cache, on the    *)
(* one adapter the behaviour has.  The calls run on a file system that       *)
(* answers (no OSError), and every audio a provider returns is new content.  *)

\* The text an adapter derives its cache file from: sovits, cartesia and
\* fishspeech clean the text first, openai does not.
KeyText(backend, text) == IF backend = "openai" THEN text ELSE clean_for_tts(text)

CallEnvs(backend) ==
    {[env EXCEPT !.bytes = ncall + 1] :
        env \in {e \in Envs(backend) : ~e.fs_error /\ e.net # "status"}}

InitAdapter ==
    /\ engines \in {c \in EngineConfigs : Cardinality({e \in Backends : c[e] # "none"}) = 1}
    /\ rhubarb \in BOOLEAN
    /\ files = EmptyDir
    /\ pc = "idle"
    /\ req = NoReq
    /\ attempts = <<>>
    /\ audio_url = NoUrl
    /\ lip_sync_data = NoTimeline
    /\ used_engine = None
    /\ nreq = 0
    /\ nrestart = 0
    /\ call = NoCall
    /\ ncall = 0
    /\ served = {}
    /\ stored = EmptyDir
    /\ EstIdle
    /\ FpIdle
    /\ AlignIdle
    /\ SideIdle
    /\ AsyncIdle
    /\ AuxIdle

\* The cache entry of a text holds a corrupt audio or timeline file.
EntryDamaged(fs, backend, text) ==
    \/ IsCorrupt(fs, cache_path(backend, KeyText(backend, text)))
    \/ IsCorrupt(fs, lip_sync_cache_path(backend, KeyText(backend, text)))

\* A file of the audio directory is damaged from outside the adapters (a
\* write cut short, a disk fault): it still exists, its content is corrupt.
Damage(path) ==
    /\ ncall < MaxCalls
    /\ Exists(files, path)
    /\ ~IsCorrupt(files, path)
    /\ files' = WriteFile(files, path, Corrupted(path))
    /\ UNCHANGED <<engines, rhubarb, pc, req, attempts, audio_url, lip_sync_data,
                   used_engine, nreq, nrestart, adapterVars, estVars, fpVars, alignVars,
                   sideVars, asyncVars, auxVars>>

\* instance.generate_speech(text, use_cache=..., generate_lip_sync=...) on the
\* adapter of a backend.  call keeps the arguments, the pair returned, the
\* content of the audio file returned and the paths earlier calls with these
\* arguments returned.
Call(backend, text, use_cache, generate_lip_sync, env) ==
    /\ ncall < MaxCalls
    /\ engines[backend] # "none"
    /\ LET r == generate_speech(backend, engines[backend], rhubarb, files, text,
                                use_cache, generate_lip_sync, env)
           args == [backend |-> backend, text |-> text, lip |-> generate_lip_sync]
       IN  /\ files' = r.files
           /\ call' = [op |-> "generate_speech", backend |-> backend, text |-> text,
                       use_cache |-> use_cache, lip |-> generate_lip_sync,
                       path |-> r.path, timeline |-> r.lip,
                       posted |-> r.posted, hit |-> r.hit,
                       audio |-> IF r.path # NoPath THEN r.files[r.path].bytes ELSE 0,
                       before |-> {s.path : s \in {x \in served : x.args = args}},
                       damaged |-> EntryDamaged(files, backend, text)]
           /\ served' = IF r.path # NoPath
                        THEN served \cup {[args |-> args, path |-> r.path]}
                        ELSE served
           /\ stored' = IF r.posted /\ env.net = "ok"
                        THEN WriteFile(stored, cache_path(backend, KeyText(backend, text)),
                                       [bytes |-> env.bytes, timeline |-> r.lip])
                        ELSE stored
    /\ ncall' = ncall + 1
    /\ UNCHANGED <<engines, rhubarb, pc, req, attempts, audio_url, lip_sync_data,
                   used_engine, nreq, nrestart, estVars, fpVars, alignVars, sideVars, asyncVars, auxVars>>

\* Python's truth value of a tuple: any tuple that is not empty is true,
\* whatever it holds.
TupleTruthy(t) == Len(t) > 0

\* One phrase of precache_voices.py (lines 58-71), and the call of
\* test_sovits.py (lines 40-57): `audio_path = await tts.generate_speech(
\* phrase, use_cache=False)` on the sovits adapter binds the pair returned,
\* and `if audio_path:` tests it.  call keeps what Call keeps, the pair bound
\* and the branch the test took.
PrecacheVoice(phrase, env) ==
    /\ ncall < MaxCalls
    /\ engines["sovits"] # "none"
    /\ LET r == generate_speech("sovits", engines["sovits"], rhubarb, files, phrase,
                                FALSE, TRUE, env)
           args == [backend |-> "sovits", text |-> phrase, lip |-> TRUE]
           audio_path == <<r.path, r.lip>>
       IN  /\ files' = r.files
           /\ call' = [op |-> "precache", backend |-> "sovits", text |-> phrase,
                       use_cache |-> FALSE, lip |-> TRUE,
                       path |-> r.path, timeline |-> r.lip,
                       posted |-> r.posted, hit |-> r.hit,
                       audio |-> IF r.path # NoPath THEN r.files[r.path].bytes ELSE 0,
                       before |-> {s.path : s \in {x \in served : x.args = args}},
                       had_entry |-> Exists(files, cache_path("sovits", KeyText("sovits", phrase))),
                       audio_path |-> audio_path,
                       branch |-> IF TupleTruthy(audio_path) THEN "audio" ELSE "no audio"]
           /\ served' = IF r.path # NoPath
                        THEN served \cup {[args |-> args, path |-> r.path]}
                        ELSE served
           /\ stored' = IF r.posted /\ env.net = "ok"
                        THEN WriteFile(stored, cache_path("sovits", KeyText("sovits", phrase)),
                                       [bytes |-> env.bytes, timeline |-> r.lip])
                        ELSE stored
    /\ ncall' = ncall + 1
    /\ UNCHANGED <<engines, rhubarb, pc, req, attempts, audio_url, lip_sync_data,
                   used_engine, nreq, nrestart, estVars, fpVars, alignVars, sideVars, asyncVars, auxVars>>

\* instance.clear_cache() on the adapter of a backend.
ClearCache(backend) ==
    /\ ncall < MaxCalls
    /\ engines[backend] # "none"
    /\ files' = clear_cache(backend, files)
    /\ call' = [op |-> "clear_cache", backend |-> backend]
    /\ served' = {}
    /\ ncall' = ncall + 1
    /\ UNCHANGED <<engines, rhubarb, pc, req, attempts, audio_url, lip_sync_data,
                   used_engine, nreq, nrestart, stored, estVars, fpVars, alignVars, sideVars, asyncVars, auxVars>>

NextAdapter ==
    \/ \E backend \in Backends, text \in ReqTexts, use_cache \in BOOLEAN, lip \in BOOLEAN :
           \E env \in CallEnvs(backend) : Call(backend, text, use_cache, lip, env)
    \/ \E phrase \in ReqTexts, env \in CallEnvs("sovits") : PrecacheVoice(phrase, env)
    \/ \E backend \in Backends : ClearCache(backend)
    \/ \E path \in DOMAIN files : Damage(path)

SpecAdapter == InitAdapter /\ [][NextAdapter]_vars

\* The same calls with the adapters as lifespan builds them (main.py
\* 148-185): every constructor is called with its defaults, so the four
\* instances exist side by side on the one audio directory; sovits,
\* fishspeech and cartesia are live or in mock mode as their environment
\* variables say.  The calls are those of the server: use_cache and
\* generate_lip_sync left on.
SharedTexts == {<<"h", "i">>}

InitShared ==
    /\ engines \in {c \in EngineConfigs : \A e \in Backends : c[e] # "none"}
    /\ rhubarb \in BOOLEAN
    /\ files = EmptyDir
    /\ pc = "idle"
    /\ req = NoReq
    /\ attempts = <<>>
    /\ audio_url = NoUrl
    /\ lip_sync_data = NoTimeline
    /\ used_engine = None
    /\ nreq = 0
    /\ nrestart = 0
    /\ call = NoCall
    /\ ncall = 0
    /\ served = {}
    /\ stored = EmptyDir
    /\ EstIdle
    /\ FpIdle
    /\ AlignIdle
    /\ SideIdle
    /\ AsyncIdle
    /\ AuxIdle

NextShared ==
    \/ \E backend \in Backends, text \in SharedTexts :
           \E env \in CallEnvs(backend) : Call(backend, text, TRUE, TRUE, env)
    \/ \E backend \in Backends : ClearCache(backend)

SpecShared == InitShared /\ [][NextShared]_vars

-----------------------------------------------------------------------------
(* The fingerprint applied to every bounded pair of inputs. *)

KeyTexts == SeqsUpTo({"h", "_"}, MaxKeyTextLen)
KeyParams == {<<"n">>, <<"1">>}
KeyInputs == [backend : Backends, text : KeyTexts, p1 : KeyParams, p2 : KeyParams]

InitFingerprint ==
    /\ MgrIdle
    /\ EstIdle
    /\ AlignIdle
    /\ SideIdle
    /\ AsyncIdle
    /\ AuxIdle
    /\ fpIn \in [a : KeyInputs, b : KeyInputs]
    /\ fpOut = <<>>

Fingerprint ==
    /\ fpOut = <<>>
    /\ fpOut' = <<TextHash(fpIn.a.backend, fpIn.a.text, fpIn.a.p1, fpIn.a.p2),
                  TextHash(fpIn.b.backend, fpIn.b.text, fpIn.b.p1, fpIn.b.p2)>>
    /\ UNCHANGED <<fpIn, mgrVars, estVars, alignVars, sideVars, asyncVars, auxVars>>

NextFingerprint == Fingerprint

SpecFingerprint == InitFingerprint /\ [][NextFingerprint]_vars

-----------------------------------------------------------------------------
(* The estimator applied to every bounded input. *)

EstAlphabet == {"m", "M", "a", "t", " ", "!"}
EstTexts == SeqsUpTo(EstAlphabet, MaxTextLen)
\* Durations in 0.1 ms: every short one, and a spread of longer ones.
EstDurations == (0..MaxDur) \cup {37 * d : d \in 0..MaxDur}

InitLipSync ==
    /\ MgrIdle
    /\ FpIdle
    /\ AlignIdle
    /\ SideIdle
    /\ AsyncIdle
    /\ AuxIdle
    /\ estText \in EstTexts
    /\ estDur \in EstDurations
    /\ estOut = Pending

Estimate ==
    /\ estOut = Pending
    /\ estOut' = generate_lip_sync_from_text(estText, estDur)
    /\ UNCHANGED <<estText, estDur, mgrVars, fpVars, alignVars, sideVars, asyncVars, auxVars>>

NextLipSync == Estimate

SpecLipSync == InitLipSync /\ [][NextLipSync]_vars

\* The estimator applied to the words over the letters of "the".
WordTexts == SeqsUpTo({"t", "h", "e"}, MaxTextLen)

InitWords ==
    /\ MgrIdle
    /\ FpIdle
    /\ AlignIdle
    /\ SideIdle
    /\ AsyncIdle
    /\ AuxIdle
    /\ estText \in WordTexts
    /\ estDur \in EstDurations
    /\ estOut = Pending

SpecWords == InitWords /\ [][NextLipSync]_vars

-----------------------------------------------------------------------------
(* The conversion of the alignment tool's output applied to every bounded   *)
(* list of mouth cues.  The tool is an external program: which shapes it    *)
(* prints, and for how long each, is the environment's choice.              *)

ToolShapes == {"A", "B", "X"}
\* How long a printed cue lasts, in ms.
CueGaps == {10, 50}

\* The mouthCues of a printed list of (shape, length): each cue starts where
\* the one before it ends, the first at 0.
RECURSIVE CuesFrom(_, _)
CuesFrom(printed, at) ==
    IF printed = <<>> THEN <<>>
    ELSE <<[value |-> Head(printed)[1], start |-> at]>>
             \o CuesFrom(Tail(printed), at + Head(printed)[2])

ToolOutputs == {CuesFrom(p, 0) : p \in SeqsUpTo(ToolShapes \X CueGaps, MaxCues)}

InitAligner ==
    /\ MgrIdle
    /\ EstIdle
    /\ FpIdle
    /\ mouthCues \in ToolOutputs
    /\ toolOut = Pending
    /\ SideIdle
    /\ AsyncIdle
    /\ AuxIdle

\* Lines 308-333: the tool exited with code 0 and its JSON was parsed.
Convert ==
    /\ toolOut = Pending
    /\ toolOut' = ToolTimeline(mouthCues)
    /\ UNCHANGED <<mouthCues, mgrVars, estVars, fpVars, sideVars, asyncVars, auxVars>>

NextAligner == Convert

SpecAligner == InitAligner /\ [][NextAligner]_vars

-----------------------------------------------------------------------------
(* lip_sync.py: get_wav_duration, on the bytes of the file.  A RIFF/WAVE    *)
(* file is 12 bytes ("RIFF", size, "WAVE"), the fmt chunk (8 bytes of id    *)
(* and size, then fmt_size bytes: 16 for plain PCM, 18 or more for the      *)
(* extended forms), then the other chunks, each 8 bytes of id and size and  *)
(* its payload, padded to an even length.  The file may end anywhere.  The  *)
(* result is the fraction <<numerator, denominator>> in seconds.            *)

\* 0.0
Zero == <<0, 1>>

\* Where the chunks after the fmt chunk start in the file.
ChunksStart(f) == 20 + f.fmt_size

\* The bytes a chunk takes: id, size, payload, pad byte.
ChunkBytes(c) == 8 + c.size + (c.size % 2)

\* Where the i-th chunk after fmt starts; i = Len + 1 gives the whole length.
RECURSIVE ChunkOffset(_, _)
ChunkOffset(f, i) ==
    IF i = 1 THEN ChunksStart(f) ELSE ChunkOffset(f, i - 1) + ChunkBytes(f.chunks[i - 1])

FullLength(f) == ChunkOffset(f, Len(f.chunks) + 1)

\* The last two bytes of a chunk id and its last byte, as little-endian
\* numbers: "ta" and "a" of "data", "ST" and "T" of "LIST".
IdTail2(id) == IF id = "data" THEN 24948 ELSE 21587
IdTail1(id) == IF id = "data" THEN 97 ELSE 84

\* struct.unpack("<I", f.read(4)) at pos + 4 when pos is 1 or 2 bytes before
\* the header of `next`: the end of its id and the low bytes of its size.
MisreadSize(next, delta) ==
    IF delta = 2 THEN IdTail2(next.id) + 65536 * (next.size % 65536)
    ELSE IdTail1(next.id) + 256 * (next.size % 16777216)

\* chunk_size / (sample_rate * num_channels * bytes_per_sample); a
\* ZeroDivisionError is caught and 0.0 returned.
DataDuration(f, chunk_size) ==
    LET bytes_per_sample == f.bits_per_sample \div 8
        den == f.sample_rate * f.num_channels * bytes_per_sample
    IN  IF den = 0 THEN Zero ELSE <<chunk_size, den>>

\* The `while True` loop (lines 72-80), reading at byte pos.
RECURSIVE ScanChunks(_, _)
ScanChunks(f, pos) ==
    IF pos >= f.length THEN Zero                \* chunk_id is b"": break
    ELSE IF pos + 8 > f.length THEN Zero        \* struct.error, caught
    ELSE IF \E i \in 1..Len(f.chunks) : ChunkOffset(f, i) = pos
    THEN LET c == f.chunks[CHOOSE i \in 1..Len(f.chunks) : ChunkOffset(f, i) = pos]
         IN  IF c.id = "data" THEN DataDuration(f, c.size)
             ELSE ScanChunks(f, pos + 8 + c.size)
    ELSE IF \E i \in 1..Len(f.chunks) : ChunkOffset(f, i) - pos \in {1, 2}
    THEN LET i == CHOOSE k \in 1..Len(f.chunks) : ChunkOffset(f, k) - pos \in {1, 2}
         IN  ScanChunks(f, pos + 8 + MisreadSize(f.chunks[i], ChunkOffset(f, i) - pos))
    ELSE Zero   \* inside a payload: not reached by the files explored

\* get_wav_duration(wav_path) on the file f: lines 62-83.  The fields are
\* read at bytes 22, 24 and 34, the loop starts at byte 36.
ReadWavDuration(f) ==
    IF f.missing THEN Zero                      \* open() raises, caught
    ELSE IF f.length < 36 THEN Zero             \* struct.error, caught
    ELSE ScanChunks(f, 36)

\* The files probed: present or not, cut at some byte or whole, with a plain
\* or an extended fmt chunk, and chunks of even and odd sizes after it.
ChunkKinds == [id : {"data", "LIST"}, size : {0, 9, 16}]
CutPoints == {0, 30, 37, 42, 50}
WavLayouts ==
    [missing : BOOLEAN, length : {0}, fmt_size : {16, 18}, num_channels : {0, 1, 2},
     sample_rate : {0, 8}, bits_per_sample : {0, 4, 16},
     chunks : SeqsUpTo(ChunkKinds, MaxChunks)]
\* The lengths a file of layout w is probed at: cut, or whole.
WavLengths(w) == {k \in CutPoints : k <= FullLength(w)} \cup {FullLength(w)}

InitProbe ==
    /\ MgrIdle
    /\ EstIdle
    /\ FpIdle
    /\ AlignIdle
    /\ SideIdle
    /\ AsyncIdle
    /\ pool = NoPool
    /\ \E w \in WavLayouts : \E n \in WavLengths(w) : wavFile = [w EXCEPT !.length = n]
    /\ wavOut = Unprobed

Probe ==
    /\ wavOut = Unprobed
    /\ wavOut' = ReadWavDuration(wavFile)
    /\ UNCHANGED <<wavFile, pool, mgrVars, estVars, fpVars, alignVars, sideVars, asyncVars>>

NextProbe == Probe

SpecProbe == InitProbe /\ [][NextProbe]_vars

-----------------------------------------------------------------------------
(* lip_sync.py: one call of LipSyncGenerator.generate_lip_sync_async, step   *)
(* by step.  The call awaits two subprocesses, ffmpeg (resampling) and the   *)
(* alignment tool, each under asyncio.wait_for.  Its temporary files are     *)
(* named after the audio: "rhubarb.wav" (the resampled copy) and "txt" (the  *)
(* transcript).  A subprocess that is running when its wait ends, or that    *)
(* exits with an error, may or may not have created its output file.         *)

\* What the tool prints in the calls explored.
JobCues == {c \in ToolOutputs : Len(c) <= 1}

\* The calls explored: whether the tool was found (rhubarb_path), the audio
\* file exists, ffmpeg can be started, a dialog_text is given.
Jobs ==
    {[pc |-> "start", tool |-> t, audio |-> a, ffmpeg |-> f, dialog |-> d, cues |-> c,
      resampled |-> FALSE, tmp |-> {}, waits |-> 0, timeouts |-> 0, out |-> Pending] :
        t \in BOOLEAN, a \in BOOLEAN, f \in BOOLEAN, d \in BOOLEAN, c \in JobCues}

InitJob ==
    /\ MgrIdle
    /\ EstIdle
    /\ FpIdle
    /\ AlignIdle
    /\ SideIdle
    /\ tasks = <<>>
    /\ job \in Jobs
    /\ AuxIdle

\* return <out>
JobReturn(j, out) == [j EXCEPT !.pc = "returned", !.out = out]

\* Lines 256-287: the command is built, the transcript is written if a
\* dialog_text was given, the tool is started and awaited.
JobStartTool(j) ==
    [j EXCEPT !.pc = "aligning",
              !.tmp = IF j.dialog THEN j.tmp \cup {"txt"} ELSE j.tmp,
              !.waits = j.waits + 1]

\* Lines 227-247: the guards, and ffmpeg is started.  If it cannot be
\* started the inner `except Exception` goes on without a resampled copy.
JobBegin ==
    /\ job.pc = "start"
    /\ job' = IF ~job.tool \/ ~job.audio THEN JobReturn(job, NoTimeline)
              ELSE IF ~job.ffmpeg THEN JobStartTool(job)
              ELSE [job EXCEPT !.pc = "resampling", !.waits = job.waits + 1]
    /\ UNCHANGED <<mgrVars, estVars, fpVars, alignVars, sideVars, tasks, auxVars>>

\* Lines 247-255: ffmpeg exits within its 10 s; code 0 sets resampled_path.
JobResampleExit(ok, wrote) ==
    /\ job.pc = "resampling"
    /\ job' = JobStartTool(
                  [job EXCEPT !.resampled = ok,
                              !.tmp = IF ok \/ wrote THEN {"rhubarb.wav"} ELSE {}])
    /\ UNCHANGED <<mgrVars, estVars, fpVars, alignVars, sideVars, tasks, auxVars>>

\* A wait on ffmpeg with no timeout.
JobResampleWaitsOn ==
    /\ job.pc = "resampling"
    /\ UNCHANGED vars

\* Lines 247, 253-254: wait_for(..., timeout=10) gives up; the TimeoutError
\* is caught by the inner `except Exception`, no resampled copy is used.
JobResampleTimeout ==
    /\ job.pc = "resampling"
    /\ \E wrote \in BOOLEAN :
          job' = JobStartTool([job EXCEPT !.tmp = IF wrote THEN {"rhubarb.wav"} ELSE {},
                                          !.timeouts = job.timeouts + 1])
    /\ UNCHANGED <<mgrVars, estVars, fpVars, alignVars, sideVars, tasks, auxVars>>

\* Lines 287-333: the tool exits within its 30 s.  The temporary files the
\* call knows of are removed, then the exit code and the JSON are looked at.
JobToolExit(ok, json_ok) ==
    /\ job.pc = "aligning"
    /\ LET cleaned == [job EXCEPT !.tmp = (job.tmp \ {"txt"})
                                         \ (IF job.resampled THEN {"rhubarb.wav"} ELSE {})]
       IN  job' = IF ~ok \/ ~json_ok THEN JobReturn(cleaned, NoTimeline)
                  ELSE JobReturn(cleaned, ToolTimeline(job.cues))
    /\ UNCHANGED <<mgrVars, estVars, fpVars, alignVars, sideVars, tasks, auxVars>>

\* A wait on the tool with no timeout.
JobToolWaitsOn ==
    /\ job.pc = "aligning"
    /\ UNCHANGED vars

\* Lines 287, 335-337: wait_for(..., timeout=30) gives up; `except
\* asyncio.TimeoutError` returns None.
JobToolTimeout ==
    /\ job.pc = "aligning"
    /\ job' = JobReturn([job EXCEPT !.timeouts = job.timeouts + 1], NoTimeline)
    /\ UNCHANGED <<mgrVars, estVars, fpVars, alignVars, sideVars, tasks, auxVars>>

NextJob ==
    \/ JobBegin
    \/ \E ok \in BOOLEAN, wrote \in BOOLEAN : JobResampleExit(ok, wrote)
    \/ JobResampleTimeout
    \/ \E ok \in BOOLEAN, json_ok \in BOOLEAN : JobToolExit(ok, json_ok)
    \/ JobToolTimeout

SpecJob == InitJob /\ [][NextJob]_vars

\* The event loop runs the call and its two timers; whether and when a
\* subprocess exits is up to the subprocess.
SpecJobFair ==
    /\ SpecJob
    /\ WF_vars(JobBegin)
    /\ WF_vars(JobResampleTimeout)
    /\ WF_vars(JobToolTimeout)

-----------------------------------------------------------------------------
(* Concurrent generate_speech coroutines on one adapter (sovits, cartesia    *)
(* or openai), as the event loop interleaves them: a coroutine runs until    *)
(* its next await.  The awaits are the provider request, the exit of the     *)
(* `async with` blocks after the audio was written (sovits, cartesia), the   *)
(* WAV conversion and the alignment (openai).  Every provider response is    *)
(* new content; the texts are clean already.                                 *)

TaskTexts == {<<"h", "i">>, <<"h">>}

\* The adapter the coroutines run on.
TaskBackend == CHOOSE b \in Backends : engines[b] # "none"

\* A name for request r.
RequestTag(r) == CASE r = 1 -> "1" [] r = 2 -> "2" [] r = 3 -> "3" [] OTHER -> "n"

\* A write that goes to a file of the request's own.
TaskTargetPerRequest(r, text) ==
    [hash |-> cache_path(TaskBackend, text).hash \o <<"_", RequestTag(r)>>,
     ext |-> OutputFormat(TaskBackend)]

\* The file request r writes the audio to: cache_path.
TaskTarget(r, text) == cache_path(TaskBackend, text)

\* The intermediate WAV of the openai adapter: cache_path.with_suffix('.wav').
WavPath(path) == [hash |-> path.hash, ext |-> "wav"]

\* The other coroutines for the same text that sent a request and have not
\* returned.
Generating(text) ==
    {q \in 1..Len(tasks) : tasks[q].text = text /\ tasks[q].posted /\ tasks[q].pc # "done"}

InitTasks ==
    /\ engines \in {c \in [Backends -> {"none", "live"}] :
                       /\ Cardinality({e \in Backends : c[e] # "none"}) = 1
                       /\ c["fishspeech"] = "none"}
    /\ rhubarb \in BOOLEAN
    /\ files = EmptyDir
    /\ pc = "idle"
    /\ req = NoReq
    /\ attempts = <<>>
    /\ audio_url = NoUrl
    /\ lip_sync_data = NoTimeline
    /\ used_engine = None
    /\ nreq = 0
    /\ nrestart = 0
    /\ call = NoCall
    /\ ncall = 0
    /\ served = {}
    /\ stored = EmptyDir
    /\ EstIdle
    /\ FpIdle
    /\ AlignIdle
    /\ SideIdle
    /\ job = NoJob
    /\ tasks = <<>>
    /\ AuxIdle

TaskDone(t, path, out) == [t EXCEPT !.pc = "done", !.path = path, !.out = out]

\* generate_speech(text, generate_lip_sync=lip) is called and runs to its
\* first await: the cache-hit branch returns, a miss sends the request.
TaskCall(text, lip) ==
    /\ Len(tasks) < MaxTasks
    /\ LET hit == CacheHit(files, TaskBackend, text, TRUE)
           r == CacheLookup(files, TaskBackend, text)
           t == [text |-> text, lip |-> lip, pc |-> "requesting", posted |-> ~hit,
                 hit |-> hit, path |-> NoPath, out |-> NoTimeline,
                 overlap |-> ~hit /\ Generating(text) # {},
                 during |-> IF hit THEN Generating(text) ELSE {}]
       IN  tasks' = Append(tasks, IF hit THEN TaskDone(t, r.path, r.lip) ELSE t)
    /\ UNCHANGED <<mgrVars, estVars, fpVars, alignVars, sideVars, job, auxVars>>

\* The provider answers request r.  On an error the coroutine returns
\* (None, None); else the audio is written to the cache file, and the
\* coroutine goes on to its next await or returns.
TaskResponse(r, net, dur) ==
    /\ r \in 1..Len(tasks)
    /\ tasks[r].pc = "requesting"
    /\ LET t == tasks[r]
           cp == TaskTarget(r, t.text)
       IN  IF net # "ok"
           THEN /\ tasks' = [tasks EXCEPT ![r] = TaskDone(t, NoPath, NoTimeline)]
                /\ UNCHANGED files
           ELSE IF TaskBackend = "openai"
           THEN /\ files' = WriteFile(files, cp, AudioFile(r, 0))
                /\ tasks' = [tasks EXCEPT ![r] =
                                 IF t.lip /\ rhubarb THEN [t EXCEPT !.pc = "converting"]
                                 ELSE TaskDone(t, cp, NoTimeline)]
           ELSE /\ files' = WriteFile(files, cp, AudioFile(r, dur))
                /\ tasks' = [tasks EXCEPT ![r] = [t EXCEPT !.pc = "stored"]]
    /\ UNCHANGED <<engines, rhubarb, pc, req, attempts, audio_url, lip_sync_data,
                   used_engine, nreq, nrestart, adapterVars, estVars, fpVars, alignVars,
                   sideVars, job, auxVars>>

\* sovits, cartesia: after the `async with` blocks the duration is probed,
\* the timeline estimated and stored, and the coroutine returns
\* (tts_sovits.py 225-275).
TaskFinish(r) ==
    /\ r \in 1..Len(tasks)
    /\ tasks[r].pc = "stored"
    /\ LET t == tasks[r]
           cp == TaskTarget(r, t.text)
           audio_duration == get_wav_duration(files, cp)
           tl == IF t.lip /\ audio_duration > 0
                 THEN generate_lip_sync_from_text(t.text, audio_duration)
                 ELSE NoTimeline
       IN  /\ files' = StoreLipSync(files, TaskBackend, t.text, tl)
           /\ tasks' = [tasks EXCEPT ![r] = TaskDone(t, cp, tl)]
    /\ UNCHANGED <<engines, rhubarb, pc, req, attempts, audio_url, lip_sync_data,
                   used_engine, nreq, nrestart, adapterVars, estVars, fpVars, alignVars,
                   sideVars, job, auxVars>>

\* openai: the WAV conversion ends (tts.py 111-120): "timeout" raises and
\* the coroutine returns (None, None), "fail" returns the MP3 with no
\* timeline, "ok" starts the alignment.  The WAV may exist in each case.
TaskConverted(r, convert, wrote) ==
    /\ r \in 1..Len(tasks)
    /\ tasks[r].pc = "converting"
    /\ LET t == tasks[r]
           cp == TaskTarget(r, t.text)
       IN  /\ files' = IF convert = "ok" \/ wrote
                        THEN WriteFile(files, WavPath(cp), AudioFile(r, 0))
                        ELSE files
           /\ tasks' = [tasks EXCEPT ![r] =
                            CASE convert = "timeout" -> TaskDone(t, NoPath, NoTimeline)
                              [] convert = "fail" -> TaskDone(t, cp, NoTimeline)
                              [] OTHER -> [t EXCEPT !.pc = "aligning"]]
    /\ UNCHANGED <<engines, rhubarb, pc, req, attempts, audio_url, lip_sync_data,
                   used_engine, nreq, nrestart, adapterVars, estVars, fpVars, alignVars,
                   sideVars, job, auxVars>>

\* openai: generate_lip_sync_async returns (tts.py 122-138): the WAV is
\* removed, the timeline stored if there is one, the coroutine returns.
TaskAligned(r, align) ==
    /\ r \in 1..Len(tasks)
    /\ tasks[r].pc = "aligning"
    /\ LET t == tasks[r]
           cp == TaskTarget(r, t.text)
           tl == generate_lip_sync_async(align)
       IN  /\ files' = StoreLipSync(Unlink(files, {WavPath(cp)}), TaskBackend, t.text, tl)
           /\ tasks' = [tasks EXCEPT ![r] = TaskDone(t, cp, tl)]
    /\ UNCHANGED <<engines, rhubarb, pc, req, attempts, audio_url, lip_sync_data,
                   used_engine, nreq, nrestart, adapterVars, estVars, fpVars, alignVars,
                   sideVars, job, auxVars>>

NextTasks ==
    \/ \E text \in TaskTexts, lip \in BOOLEAN : TaskCall(text, lip)
    \/ \E r \in 1..MaxTasks, net \in {"ok", "error"}, dur \in AudioDurs : TaskResponse(r, net, dur)
    \/ \E r \in 1..MaxTasks : TaskFinish(r)
    \/ \E r \in 1..MaxTasks, convert \in {"ok", "fail", "timeout"}, wrote \in BOOLEAN :
           TaskConverted(r, convert, wrote)
    \/ \E r \in 1..MaxTasks, align \in {"fail", "cues"} : TaskAligned(r, align)

SpecTasks == InitTasks /\ [][NextTasks]_vars

-----------------------------------------------------------------------------
(* tts_cartesia.py: the pooled session of one live Cartesia adapter, under   *)
(* generate_speech coroutines and close() calls as the event loop            *)
(* interleaves them.  pool.session is self._session (0 for None),            *)
(* pool.created the sessions the adapter created, each "open" or "closed",   *)
(* pool.coros the generate_speech coroutines with the session each holds in  *)
(* its local `session`, pool.closes the close() calls.  _get_session holds   *)
(* no await and runs in one step.  `await self._session.close()` closes the  *)
(* connector at once, so that session.closed is true from then on, and is    *)
(* then a suspension point or not: aiohttp returns from it without           *)
(* suspending when no connection is left to wait for, and suspends until     *)
(* the connections are closed otherwise.                                     *)

\* self._session is None or self._session.closed
NeedsSession(p) == p.session = 0 \/ p.created[p.session] = "closed"

\* _get_session (lines 48-59): the pool after the call; its session is the
\* one returned.
GetSession(p) ==
    IF NeedsSession(p)
    THEN [p EXCEPT !.created = Append(p.created, "open"), !.session = Len(p.created) + 1]
    ELSE p

InitPool ==
    /\ engines = [e \in Backends |-> IF e = "cartesia" THEN "live" ELSE "none"]
    /\ rhubarb = FALSE
    /\ files = EmptyDir
    /\ pc = "idle"
    /\ req = NoReq
    /\ attempts = <<>>
    /\ audio_url = NoUrl
    /\ lip_sync_data = NoTimeline
    /\ used_engine = None
    /\ nreq = 0
    /\ nrestart = 0
    /\ call = NoCall
    /\ ncall = 0
    /\ served = {}
    /\ stored = EmptyDir
    /\ EstIdle
    /\ FpIdle
    /\ AlignIdle
    /\ SideIdle
    /\ AsyncIdle
    /\ wavFile = NoWav
    /\ wavOut = Unprobed
    /\ pool = NoPool

\* generate_speech is called for a text that is not cached and runs to its
\* first suspension: `session = await self._get_session()`, then the entry
\* of `async with session.post(...)` (lines 153-158).
PoolCall ==
    /\ Len(pool.coros) < MaxTasks
    /\ LET p == GetSession(pool)
       IN  pool' = [p EXCEPT !.coros = Append(p.coros, [pc |-> "posting", session |-> p.session])]
    /\ UNCHANGED <<mgrVars, estVars, fpVars, alignVars, sideVars, asyncVars, probeVars>>

\* The request of coroutine r ends (lines 158-194): with a response, or
\* with an exception, the only outcome once its session is closed.  Either
\* way the coroutine returns and drops its local `session`.
PoolResponse(r, net) ==
    /\ r \in 1..Len(pool.coros)
    /\ pool.coros[r].pc = "posting"
    /\ net = "ok" => pool.created[pool.coros[r].session] = "open"
    /\ pool' = [pool EXCEPT !.coros[r] = [pc |-> IF net = "ok" THEN "audio" ELSE "failed",
                                          session |-> 0]]
    /\ UNCHANGED <<mgrVars, estVars, fpVars, alignVars, sideVars, asyncVars, probeVars>>

\* close() is called (lines 61-65) and runs to the await: with no open
\* session it returns; else the session is closed, and the await either
\* returns at once, so that `self._session = None` follows in the same step,
\* or suspends.
PoolClose(suspends) ==
    /\ Len(pool.closes) < MaxCloses
    /\ \A c \in 1..Len(pool.closes) : pool.closes[c].pc = "returned"
    /\ IF NeedsSession(pool)
       THEN /\ ~suspends
            /\ pool' = [pool EXCEPT !.closes = Append(pool.closes, [pc |-> "returned", closed |-> 0])]
       ELSE pool' = [pool EXCEPT
                        !.created[pool.session] = "closed",
                        !.session = IF suspends THEN pool.session ELSE 0,
                        !.closes = Append(pool.closes,
                                          [pc |-> IF suspends THEN "closing" ELSE "returned",
                                           closed |-> pool.session])]
    /\ UNCHANGED <<mgrVars, estVars, fpVars, alignVars, sideVars, asyncVars, probeVars>>

\* The suspended close() is resumed: `self._session = None` (line 65), and
\* it returns.
PoolCloseResumed(c) ==
    /\ c \in 1..Len(pool.closes)
    /\ pool.closes[c].pc = "closing"
    /\ pool' = [pool EXCEPT !.session = 0, !.closes[c].pc = "returned"]
    /\ UNCHANGED <<mgrVars, estVars, fpVars, alignVars, sideVars, asyncVars, probeVars>>

NextPool ==
    \/ PoolCall
    \/ \E r \in 1..MaxTasks, net \in {"ok", "error"} : PoolResponse(r, net)
    \/ \E suspends \in BOOLEAN : PoolClose(suspends)
    \/ \E c \in 1..MaxCloses : PoolCloseResumed(c)

SpecPool == InitPool /\ [][NextPool]_vars

-----------------------------------------------------------------------------
(* Claims about TTSManager.generate, checked under Spec and SpecRestart. *)

\* The attempt returned an audio path.
Succeeded(a) == a.path # NoPath

AllFailed == \A i \in 1..Len(attempts) : ~Succeeded(attempts[i])

\* The engines of the attempts, in the order they were made.
EnginesTried == [i \in 1..Len(attempts) |-> attempts[i].engine]

\* The order the module docstring gives for a requested engine.
FixedOrder(pref) ==
    <<pref>> \o (IF pref # "sovits" THEN <<"sovits">> ELSE <<>>)
             \o (IF pref # "openai" THEN <<"openai">> ELSE <<>>)

IsPrefix(s, t) == Len(s) <= Len(t) /\ SubSeq(t, 1, Len(s)) = s

\* What used_engine says when the i-th attempt is the one that served.
ResultLabel(i) ==
    CASE i = 1 -> attempts[1].engine
      [] attempts[i].engine = "sovits" -> "sovits (fallback)"
      [] attempts[i].engine = "openai" -> "openai (fallback)"
      [] OTHER -> "?"

\* The URL of an audio file: "/audio/" and the file's name.
UrlOf(path) == [prefix |-> "/audio/", name |-> path]

\* C1: once an attempt returns an audio path no further engine is attempted,
\* and the audio_url and used_engine returned identify that attempt's engine;
\* when the preferred engine succeeds, used_engine is engine_preference and
\* no fallback engine is called.
C1_StopsAtFirstSuccess ==
    /\ \A i \in 1..Len(attempts) : Succeeded(attempts[i]) => i = Len(attempts)
    /\ pc = "done" =>
          \A i \in 1..Len(attempts) :
              Succeeded(attempts[i]) =>
                  /\ audio_url = UrlOf(attempts[i].path)
                  /\ used_engine = ResultLabel(i)
    /\ (pc = "done" /\ attempts # <<>> /\ Succeeded(attempts[1])) =>
          /\ used_engine = req.pref
          /\ Len(attempts) = 1

\* generate has returned after the preferred engine failed and the sovits
\* fallback returned audio.
C1_Witness ==
    /\ pc = "done"
    /\ Len(attempts) = 2
    /\ ~Succeeded(attempts[1])
    /\ Succeeded(attempts[2])
    /\ used_engine = "sovits (fallback)"

\* generate has returned, the requested engine and sovits failed, and openai,
\* the last engine of the order, returned audio.
OnlyLastSucceeds ==
    /\ pc = "done"
    /\ req.pref # "openai"
    /\ attempts # <<>>
    /\ \A i \in 1..Len(attempts) : Succeeded(attempts[i]) <=> attempts[i].engine = "openai"
    /\ \E i \in 1..Len(attempts) : Succeeded(attempts[i])

C3_AllFailReturnsNone ==
    (pc = "done" /\ AllFailed) =>
        /\ audio_url = NoUrl
        /\ lip_sync_data = NoTimeline
        /\ used_engine = None

\* generate has returned after three failed attempts: one raised, one had no
\* instance, one returned no audio after a provider request.
C3_Witness ==
    /\ pc = "done"
    /\ AllFailed
    /\ Len(attempts) = 3
    /\ \E i \in 1..3 : attempts[i].how = "raised"
    /\ \E i \in 1..3 : attempts[i].how = "none"
    /\ \E i \in 1..3 : attempts[i].how = "returned" /\ attempts[i].posted
    /\ audio_url = NoUrl

\* C4: in every request the engines are attempted in the fixed order (the
\* requested engine, then sovits, then openai, none of them twice), a later
\* one only after all earlier attempts returned no audio, whatever earlier
\* requests did.
C4_FixedOrder ==
    /\ IsPrefix(EnginesTried, FixedOrder(req.pref))
    /\ \A i \in 1..Len(attempts) : \A j \in 1..(i - 1) : ~Succeeded(attempts[j])
    /\ (pc = "done" /\ AllFailed) => EnginesTried = FixedOrder(req.pref)

\* The second request of a behaviour went through the whole order although
\* an earlier request had left audio in the directory.
C4_Witness ==
    /\ pc = "done"
    /\ nreq = 2
    /\ AllFailed
    /\ files # EmptyDir
    /\ EnginesTried = <<"fishspeech", "sovits", "openai">>

\* C5: an engine that is not configured (no instance, or in mock mode) is
\* never sent a provider request during generate, and its attempt is a
\* failed one: it returns no audio and the next engine is tried.
C5_UnconfiguredEngineFails ==
    \A i \in 1..Len(attempts) :
        (attempts[i].engine \in Backends /\ engines[attempts[i].engine] \in {"none", "mock"})
            => /\ ~attempts[i].posted
               /\ ~Succeeded(attempts[i])

\* C6, as stated: on a cache hit generate returns with used_engine = "cache".
C6_CacheHitReportsCache ==
    (pc = "done" /\ \E i \in 1..Len(attempts) : attempts[i].hit) => used_engine = "cache"

\* C6, amended: when an engine's adapter is served by its cache, the adapter
\* sends no provider request, no further engine is attempted, and generate
\* returns the cached file's URL with used_engine naming that engine
\* (engine_preference, "sovits (fallback)" or "openai (fallback)"), never
\* "cache".
C6_CacheHitNamesEngine ==
    /\ used_engine # "cache"
    /\ \A i \in 1..Len(attempts) :
           attempts[i].hit =>
               /\ ~attempts[i].posted
               /\ i = Len(attempts)
               /\ pc = "done" =>
                     /\ audio_url = UrlOf(attempts[i].path)
                     /\ used_engine = ResultLabel(i)

\* The second request found sovits's cached file after the requested engine
\* failed.
C6_Witness ==
    /\ pc = "done"
    /\ Len(attempts) = 2
    /\ attempts[2].hit
    /\ attempts[1].posted
    /\ used_engine = "sovits (fallback)"

\* The i-th attempt synthesized audio with sovits or cartesia (the adapters
\* that probe the duration) and the file it wrote has a malformed header.
MalformedSynthesis(i) ==
    /\ attempts[i].engine \in {"sovits", "cartesia"}
    /\ Succeeded(attempts[i])
    /\ attempts[i].posted
    /\ files[attempts[i].path].dur = 0

\* C12: when the synthesized audio has a malformed header (the probe gives
\* 0.0), the request still returns the audio, with no timeline.
C12_DurationZeroGuard ==
    pc = "done" =>
        \A i \in 1..Len(attempts) :
            MalformedSynthesis(i) =>
                /\ audio_url = UrlOf(attempts[i].path)
                /\ lip_sync_data = NoTimeline
                /\ used_engine = ResultLabel(i)

\* A request that wants a timeline was served by sovits as a fallback with
\* audio whose header is malformed.
C12_Witness ==
    /\ pc = "done"
    /\ req.lip
    /\ Len(attempts) = 2
    /\ MalformedSynthesis(2)
    /\ lip_sync_data = NoTimeline

\* The i-th attempt synthesized audio with fishspeech or openai (the adapters
\* that run the alignment tool) for a request that wants a timeline, with the
\* tool available.
AlignedSynthesis(i) ==
    /\ req.lip
    /\ rhubarb
    /\ attempts[i].engine \in {"fishspeech", "openai"}
    /\ Succeeded(attempts[i])
    /\ attempts[i].posted

\* C13: when the alignment fails for a request that wants a timeline, the
\* system falls back to the text estimator: the result has a timeline, never
\* none.
C13_AlignmentFailureFallsBack ==
    pc = "done" =>
        \A i \in 1..Len(attempts) : AlignedSynthesis(i) => lip_sync_data # NoTimeline

\* The attempts that invoked an adapter's generate_speech.
Invoked(i) == attempts[i].how # "none"

\* C17: during one TTSManager.generate call no engine's generate_speech is
\* invoked more than once, whatever engine_preference is: a failed engine is
\* never retried.
C17_NoEngineInvokedTwice ==
    \A i, j \in 1..Len(attempts) :
        (i < j /\ Invoked(i) /\ Invoked(j)) => attempts[i].engine # attempts[j].engine

\* A call that asked for sovits, whose sovits adapter was invoked and gave no
\* audio, has finished: openai was invoked next.
C17_Witness ==
    /\ pc = "done"
    /\ req.pref = "sovits"
    /\ Len(attempts) = 2
    /\ attempts[1].engine = "sovits" /\ Invoked(1) /\ attempts[1].path = NoPath
    /\ attempts[2].engine = "openai" /\ Invoked(2)

\* C19: every result of TTSManager.generate has audio_url None if and only if
\* used_engine is None, and lip_sync_data None whenever audio_url is None.
C19_ResultConsistent ==
    pc = "done" =>
        /\ audio_url = NoUrl <=> used_engine = None
        /\ audio_url = NoUrl => lip_sync_data = NoTimeline

\* A call that asked for a timeline has returned with no audio after all
\* three adapters were invoked.
C19_Witness ==
    /\ pc = "done"
    /\ req.lip
    /\ audio_url = NoUrl
    /\ Len(attempts) = 3
    /\ \A i \in 1..3 : Invoked(i)

\* C33: if TTSManager.generate is called with generate_lip_sync=False, the
\* returned lip_sync_data is None, whether the audio was freshly synthesized
\* or served from the cache.
C33_NoTimelineUnlessAsked ==
    (pc = "done" /\ ~req.lip) => lip_sync_data = NoTimeline

\* C35: in every result of TTSManager.generate that carries a timeline, the
\* timeline was produced by the same engine attempt that produced the
\* returned audio; a timeline from a failed or earlier attempt is never
\* combined with another engine's audio.
C35_TimelineFromServingAttempt ==
    (pc = "done" /\ lip_sync_data # NoTimeline) =>
        \E i \in 1..Len(attempts) :
            /\ Succeeded(attempts[i])
            /\ audio_url = UrlOf(attempts[i].path)
            /\ lip_sync_data = attempts[i].lip
            /\ \A j \in 1..Len(attempts) : j # i => attempts[j].lip = NoTimeline

\* A call that asked for a timeline was served by the openai fallback, after
\* two engines that sent a provider request failed, with a timeline of cues.
C35_Witness ==
    /\ pc = "done"
    /\ req.lip
    /\ Len(attempts) = 3
    /\ attempts[1].posted /\ attempts[2].posted
    /\ used_engine = "openai (fallback)"
    /\ Truthy(lip_sync_data)

\* What used_engine says when `engine` served.
EngineLabels(engine) ==
    CASE engine = "sovits" -> {"sovits", "sovits (fallback)"}
      [] engine = "openai" -> {"openai", "openai (fallback)"}
      [] OTHER -> {engine}

\* C37: TTSManager.generate never returns audio attributed to an engine that
\* is in mock mode: for every engine with mock_mode set, no result has
\* used_engine naming it, whatever the cache directory contains.  Checked
\* under SpecRestart, where the directory holds what earlier runs left.
C37_MockEngineNeverNamed ==
    pc = "done" =>
        \A e \in Backends : engines[e] = "mock" => used_engine \notin EngineLabels(e)

\* C39: if the text is empty or whitespace-only, or becomes empty after
\* clean_for_tts, TTSManager.generate returns no audio and no engine sends a
\* provider request or writes a cache entry, whichever engines are
\* configured.  Checked under SpecBlank, where every text is such a text.
C39_BlankTextNoAudio ==
    IsBlank(clean_for_tts(req.text)) =>
        /\ \A i \in 1..Len(attempts) : ~attempts[i].posted /\ ~Succeeded(attempts[i])
        /\ audio_url = NoUrl
        /\ files = EmptyDir

-----------------------------------------------------------------------------
(* Claims about the websocket handler's cascade, checked under SpecWebsocket. *)

\* C18: in the websocket handler's inline TTS cascade each engine's
\* generate_speech is invoked at most once per assistant response: the
\* fallback steps skip the engine that was just tried and failed.
C18_InlineCascadeInvokesOnce ==
    \A i, j \in 1..Len(ws.calls) : i < j => ws.calls[i].engine # ws.calls[j].engine

-----------------------------------------------------------------------------
(* Claims about the process's shutdown, checked under SpecRestart. *)

\* How many times the shutdown called the close of an adapter.
CloseCalls(adapter) ==
    Cardinality({i \in 1..Len(shutdown.closed) : shutdown.closed[i] = adapter})

\* C15: at process shutdown the close operation of every adapter that pools
\* network connections (the Cartesia adapter) is called exactly once,
\* whichever other adapters were initialised.
C15_PoolingAdaptersClosedOnce ==
    \A adapter \in shutdown.found : HasClose(adapter) => CloseCalls(adapter) = 1

-----------------------------------------------------------------------------
(* Claims about the adapters' cache, checked under SpecAdapter. *)

\* None and an empty timeline are taken as the same "no timeline".
SameTimeline(a, b) == a = b \/ (~Truthy(a) /\ ~Truthy(b))

\* C7: after generate_speech returned audio for a text, a later
\* generate_speech on that adapter with the same text and generate_lip_sync
\* and with use_cache on, no clear_cache in between, returns the same audio
\* path and sends no provider request.
C7_CachedCallRepeats ==
    (call.op = "generate_speech" /\ call.use_cache /\ call.before # {}) =>
        /\ call.before = {call.path}
        /\ ~call.posted

\* A call repeated with use_cache on, after an earlier one with use_cache off.
C7_Witness ==
    /\ call.op = "generate_speech"
    /\ call.use_cache
    /\ call.before # {}
    /\ call.path # NoPath
    /\ ncall >= 3

\* C8: a cache-hit lookup returns the audio and the timeline (possibly none)
\* that the last generation stored under the text's fingerprint.
C8_CacheRoundTrip ==
    (call.op = "generate_speech" /\ call.hit) =>
        /\ Exists(stored, call.path)
        /\ call.audio = stored[call.path].bytes
        /\ SameTimeline(call.timeline, stored[call.path].timeline)

\* C16: with use_cache=False generate_speech never serves from the cache: it
\* sends a backend request even if an entry for the text exists, and when
\* that request fails the caller's `if audio_path:` check sees a failure, and
\* the existing entry is not returned.
C16_UncachedCallReportsFailure ==
    (call.op = "precache" /\ engines["sovits"] = "live" /\ ~IsBlank(KeyText("sovits", call.text))) =>
        /\ ~call.hit
        /\ call.posted
        /\ call.path = NoPath => call.branch = "no audio"

\* C20: malformed cached data (a corrupt cached audio file or timeline file)
\* is treated as a cache miss: the lookup does not crash and the request
\* regenerates the entry through the backend instead of returning the cached
\* data.
C20_CorruptEntryIsMiss ==
    (/\ call.op = "generate_speech"
     /\ call.use_cache
     /\ call.damaged
     /\ engines[call.backend] = "live") =>
        /\ ~call.hit
        /\ call.posted

\* An entry that exists and is readable.
Intact(fs, q) == Exists(fs, q) /\ ~IsCorrupt(fs, q)

\* C23: a fingerprint maps to at most one cache entry and an existing entry
\* is never updated in place: once audio and timeline are stored for a
\* fingerprint, no operation other than clear_cache rewrites them.
C23_EntriesNeverRewritten ==
    [][(ncall' = ncall + 1 /\ call'.op # "clear_cache") =>
           \A q \in DOMAIN files :
               Intact(files, q) => (Exists(files', q) /\ files'[q] = files[q])]_vars

\* C24: clear_cache removes entries wholesale: after it returns neither the
\* audio nor the timeline of any previously cached fingerprint remains.
C24_ClearRemovesEntries ==
    call.op = "clear_cache" => files = EmptyDir

\* The provider answered the last call with audio: the call stored content
\* of its own.
ProviderAnswered ==
    /\ call.op = "generate_speech"
    /\ LET cp == cache_path(call.backend, KeyText(call.backend, call.text))
       IN  Exists(stored, cp) /\ stored[cp].bytes = ncall

\* C26: a failure of timeline generation (alignment tool, WAV conversion done
\* for alignment, duration probe) never propagates upward: once the provider
\* has returned audio, generate_speech returns the audio path.
C26_TimelineFailureKeepsAudio == ProviderAnswered => call.path # NoPath

\* C27: if generate_speech returns (None, None) for a text, the call has left
\* no audio file for the text in the cache (so a following call, the
\* provider still unavailable, returns no audio either): a call that found
\* no audio file for its text and returns no audio leaves none.
C27_FailureLeavesNoAudio ==
    [][(ncall' = ncall + 1 /\ call'.op = "generate_speech" /\ call'.path = NoPath) =>
           LET cp == cache_path(call'.backend, KeyText(call'.backend, call'.text))
           IN  ~Exists(files, cp) => ~Exists(files', cp)]_vars

\* The text has a letter the estimator maps to a shape.
HasLetter(text) == \E i \in 1..Len(text) : GraphemeToShape(Lower(text[i])) # "none"

\* C34: if the sovits or cartesia adapter is called with
\* generate_lip_sync=True and returns audio with a well-formed WAV header for
\* a text with at least one letter, it also returns a non-empty timeline,
\* whether the audio was freshly synthesized or served from a cache entry
\* created by any earlier call.
C34_AudioComesWithTimeline ==
    (/\ call.op = "generate_speech"
     /\ call.backend \in {"sovits", "cartesia"}
     /\ call.lip
     /\ call.path # NoPath
     /\ HasLetter(KeyText(call.backend, call.text))) =>
        (get_wav_duration(files, call.path) > 0 => Truthy(call.timeline))

\* The file is the audio or the timeline of a cache entry of the adapter of
\* `backend`.
EntryOf(backend, q) ==
    \E text \in SharedTexts :
        q \in {cache_path(backend, KeyText(backend, text)),
               lip_sync_cache_path(backend, KeyText(backend, text))}

\* C36: clear_cache on one adapter leaves the cache entries of every other
\* adapter unchanged (audio cached by another engine is still served as a
\* cache hit afterwards), with the adapters constructed as the server
\* constructs them.  Checked under SpecShared.
C36_ClearLeavesOtherAdapters ==
    [][(ncall' = ncall + 1 /\ call'.op = "clear_cache") =>
           \A q \in DOMAIN files :
               (\E other \in Backends \ {call'.backend} : EntryOf(other, q)) =>
                   (Exists(files', q) /\ files'[q] = files[q])]_vars

-----------------------------------------------------------------------------
(* Claims about the estimator, checked under SpecLipSync. *)

IsTimeline(tl) == tl # NoTimeline /\ tl # Pending

\* The cues of tl are laid end to end from 0 to dur (0.1 ms), the end within
\* half a millisecond, the rounding step of round(x, 3).
CoversDuration(tl, dur) ==
    /\ Len(tl) >= 1
    /\ tl[1].start = 0
    /\ \A i \in 1..Len(tl) : tl[i].start <= tl[i].end
    /\ \A i \in 1..(Len(tl) - 1) : tl[i].end = tl[i + 1].start
    /\ 10 * tl[Len(tl)].end - dur <= 5
    /\ dur - 10 * tl[Len(tl)].end <= 5

\* C10: for a non-empty text and a duration > 0, a timeline the estimator
\* produces has contiguous, non-overlapping cues, the first starting at 0 and
\* the last ending at the duration, within the rounding step.
C10_TimelineCoverage ==
    (estText # <<>> /\ estDur > 0 /\ IsTimeline(estOut))
        => CoversDuration(estOut, estDur)

\* A timeline of three cues, one of them a silence, for a duration that is
\* not a whole number of milliseconds.
C10_Witness ==
    /\ IsTimeline(estOut)
    /\ Len(estOut) = 3
    /\ \E i \in 1..3 : estOut[i].shape = "X"
    /\ estDur % 10 # 0
    /\ estOut[3].end > estOut[2].end
    /\ CoversDuration(estOut, estDur)

\* C14: the estimator matches multi-letter patterns before single letters:
\* the timeline of "the" is that of its 3-letter pattern, not the one the
\* single-character mappings give (t and h merged into one B cue, then e as
\* a C cue).  Checked under SpecWords.
C14_DigraphPriority ==
    (estText = <<"t", "h", "e">> /\ IsTimeline(estOut)) =>
        ~(/\ Len(estOut) = 2
          /\ estOut[1].shape = "B"
          /\ estOut[2].shape = "C")

\* The weight of a character of shape `shape`, in tenths: 1.0 per letter,
\* 0.3 per space.
CharWeight(shape) == IF shape = "X" THEN 3 ELSE 10

\* The weight of the first n of the characters chars (their shapes).
RECURSIVE CumWeight(_, _)
CumWeight(chars, n) ==
    IF n = 0 THEN 0 ELSE CumWeight(chars, n - 1) + CharWeight(chars[n])

\* The maximal runs of consecutive characters of one shape: where they
\* start, where run j starts and ends.
RunStarts(chars) == {i \in 1..Len(chars) : i = 1 \/ chars[i] # chars[i - 1]}
RunStart(starts, j) == CHOOSE i \in starts : Cardinality({k \in starts : k < i}) = j - 1
RunEnd(chars, starts, j) ==
    IF j = Cardinality(starts) THEN Len(chars) ELSE RunStart(starts, j + 1) - 1

\* C30 as stated: consecutive characters of one shape are merged into one cue
\* whose weight is the sum of their weights, every cue's time span equals
\* duration * weight / totalWeight, and the cues are laid out sequentially
\* from 0.
C30_ExactSpans ==
    IsTimeline(estOut) =>
        LET chars == TextShapes(estText)
            starts == RunStarts(chars)
            total == CumWeight(chars, Len(chars))
        IN  /\ Len(estOut) = Cardinality(starts)
            /\ \A j \in 1..Len(estOut) :
                   LET before == CumWeight(chars, RunStart(starts, j) - 1)
                       through == CumWeight(chars, RunEnd(chars, starts, j))
                   IN  /\ estOut[j].shape = chars[RunStart(starts, j)]
                       /\ 10 * estOut[j].start * total = estDur * before
                       /\ 10 * (estOut[j].end - estOut[j].start) * total
                              = estDur * (through - before)

\* C30, amended: the merge and the weights are as stated, and every cue
\* starts and ends at its sequential position duration * (weight before it)
\* / totalWeight and duration * (weight through it) / totalWeight, each
\* rounded to the millisecond; its span is duration * weight / totalWeight
\* to within that rounding.
C30_RoundedSpans ==
    IsTimeline(estOut) =>
        LET chars == TextShapes(estText)
            starts == RunStarts(chars)
            total == CumWeight(chars, Len(chars))
        IN  /\ Len(estOut) = Cardinality(starts)
            /\ \A j \in 1..Len(estOut) :
                   LET before == CumWeight(chars, RunStart(starts, j) - 1)
                       through == CumWeight(chars, RunEnd(chars, starts, j))
                   IN  /\ estOut[j].shape = chars[RunStart(starts, j)]
                       /\ estOut[j].start = RoundMs(estDur * before, total)
                       /\ estOut[j].end = RoundMs(estDur * through, total)

\* A timeline in which two letters were merged into one cue, followed by a
\* silence, for a duration that does not divide into whole milliseconds.
C30_Witness ==
    /\ IsTimeline(estOut)
    /\ Len(estText) = 3
    /\ Len(estOut) = 2
    /\ estOut[1].shape # "X"
    /\ estOut[2].shape = "X"
    /\ GraphemeToShape(Lower(estText[1])) # "none"
    /\ GraphemeToShape(Lower(estText[1])) = GraphemeToShape(Lower(estText[2]))
    /\ estText[3] = " "
    /\ 23 * 10 * estOut[1].end # estDur * 20

\* The punctuation marks the character mode gives a pause to.
IsPunctuation(c) == c \in {".", "?", "!", ",", ":", "-"}

\* The shapes of a text when every punctuation mark is a silence entry.
RECURSIVE ShapesWithPauses(_)
ShapesWithPauses(text) ==
    IF text = <<>> THEN <<>>
    ELSE LET c == Lower(Head(text))
             rest == ShapesWithPauses(Tail(text))
         IN  IF GraphemeToShape(c) # "none" THEN <<GraphemeToShape(c)>> \o rest
             ELSE IF c = " " \/ IsPunctuation(c) THEN <<"X">> \o rest
             ELSE rest

\* C31: in character mode each punctuation mark contributes a silence entry
\* to the timeline (weighted by the pause it implies), and unrecognized
\* characters are skipped: the timeline of a text with a punctuation mark has
\* one cue for every run of shapes, the punctuation marks counted as silence.
C31_PunctuationIsSilence ==
    (estOut # Pending /\ estDur > 0 /\ \E i \in 1..Len(estText) : IsPunctuation(estText[i])) =>
        /\ IsTimeline(estOut)
        /\ Len(estOut) = Cardinality(RunStarts(ShapesWithPauses(estText)))

\* No two consecutive cues of tl have the same shape.
NoAdjacentSame(tl) == \A i \in 1..(Len(tl) - 1) : tl[i].shape # tl[i + 1].shape

\* The estimator's timelines have no two consecutive cues of one shape.
EstimatedNoAdjacentSame == IsTimeline(estOut) => NoAdjacentSame(estOut)

-----------------------------------------------------------------------------
(* Claims about the aligner's conversion, checked under SpecAligner. *)

\* C11: in a timeline the system produces, no two consecutive cues have the
\* same shape (here: the timeline converted from the alignment tool's cues).
C11_NoAdjacentDuplicates == toolOut # Pending => NoAdjacentSame(toolOut)

\* C28: in a tool-aligned timeline every cue's end time is the start time of
\* the next cue the tool emitted, and the last cue's end time is its start
\* + 0.1 s.
C28_CueEndsAtNextStart ==
    toolOut # Pending =>
        /\ Len(toolOut) = Len(mouthCues)
        /\ \A i \in 1..Len(toolOut) :
               /\ toolOut[i].start = mouthCues[i].start
               /\ i < Len(toolOut) => toolOut[i].end = mouthCues[i + 1].start
               /\ i = Len(toolOut) => toolOut[i].end = toolOut[i].start + 100

\* A converted timeline of several cues, none of the first ones 0.1 s long.
C28_Witness ==
    /\ toolOut # Pending
    /\ Len(toolOut) = MaxCues
    /\ \A i \in 1..(Len(toolOut) - 1) : toolOut[i].end # toolOut[i].start + 100

-----------------------------------------------------------------------------
(* Claims about concurrent generate_speech coroutines, checked under         *)
(* SpecTasks.                                                                *)

\* The coroutine returned the audio the provider sent it.
Synthesized(r) == tasks[r].pc = "done" /\ tasks[r].posted /\ tasks[r].path # NoPath

\* C22: a cache miss does not reserve the fingerprint: two concurrent
\* requests for identical text can both call the provider before either
\* writes the cache, and after both complete the cache holds a single entry
\* for that fingerprint, the one both return.
C22_ConcurrentMissesShareEntry ==
    \A a, b \in 1..Len(tasks) :
        (Synthesized(a) /\ Synthesized(b) /\ tasks[a].text = tasks[b].text) =>
            /\ tasks[a].path = tasks[b].path
            /\ Exists(files, tasks[a].path)
            /\ Cardinality({q \in DOMAIN files :
                               /\ q.ext = OutputFormat(TaskBackend)
                               /\ q.hash = tasks[a].path.hash}) = 1

\* Two requests for the same text both missed and both called the provider,
\* the second while the first had not returned, and both have returned audio.
C22_Witness ==
    /\ Len(tasks) = 2
    /\ tasks[1].text = tasks[2].text
    /\ tasks[2].overlap
    /\ Synthesized(1)
    /\ Synthesized(2)

\* C25: a lookup that runs while another request is still generating the
\* same fingerprint sees either a miss or the complete entry: never the
\* audio file without the timeline the generating request goes on to return.
C25_LookupSeesCompleteEntry ==
    \A h \in 1..Len(tasks) :
        tasks[h].hit =>
            \A g \in tasks[h].during :
                Synthesized(g) => SameTimeline(tasks[h].out, tasks[g].out)

-----------------------------------------------------------------------------
(* Claims about one generate_lip_sync_async call, checked under SpecJob and  *)
(* SpecJobFair.                                                              *)

\* C21: every temporary file created by a subprocess-based step has been
\* deleted by the time the step returns, on the success path, on tool
\* failure and on timeout alike.
C21_TemporaryFilesDeleted == job.pc = "returned" => job.tmp = {}

\* C29: every call of generate_lip_sync_async eventually returns, even when
\* the resampling or alignment subprocess never exits: each subprocess is
\* waited for once, under a timeout, and a timed-out step is not retried.
C29_CallReturns == [](job.waits <= 2) /\ <>(job.pc = "returned")

\* A call has returned after both of its subprocesses ran into the timeout.
C29_Witness == job.pc = "returned" /\ job.waits = 2 /\ job.timeouts = 2

-----------------------------------------------------------------------------
(* Claims about the duration probe, checked under SpecProbe. *)

\* The first data chunk of the file, 0 if it has none.
DataChunk(f) ==
    IF \E i \in 1..Len(f.chunks) : f.chunks[i].id = "data"
    THEN CHOOSE i \in 1..Len(f.chunks) :
             /\ f.chunks[i].id = "data"
             /\ \A k \in 1..(i - 1) : f.chunks[k].id # "data"
    ELSE 0

\* The file exists, holds its header up to the size of a data chunk, and no
\* field of the header is zero.
WellFormedHeader(f) ==
    /\ ~f.missing
    /\ DataChunk(f) # 0
    /\ f.length >= ChunkOffset(f, DataChunk(f)) + 8
    /\ f.num_channels > 0
    /\ f.sample_rate > 0
    /\ f.bits_per_sample >= 8

\* C32: get_wav_duration never raises: for a missing, truncated or malformed
\* file (a zero sample rate, channel count or bit depth, no data chunk) it
\* returns 0.0, and for a well-formed header it returns
\* dataBytes / (sampleRate * channels * bytesPerSample).
C32_ProbeReturnsHeaderDuration ==
    wavOut # Unprobed =>
        IF WellFormedHeader(wavFile)
        THEN wavOut[1] * (wavFile.sample_rate * wavFile.num_channels
                              * (wavFile.bits_per_sample \div 8))
                 = wavFile.chunks[DataChunk(wavFile)].size * wavOut[2]
        ELSE wavOut[1] = 0

-----------------------------------------------------------------------------
(* Claims about the Cartesia adapter's pooled session, checked under         *)
(* SpecPool.                                                                 *)

OpenSessions == {i \in 1..Len(pool.created) : pool.created[i] = "open"}

\* C38: under any interleaving of concurrent generate_speech calls and
\* close() on one Cartesia adapter, at most one session the adapter opened is
\* open at a time, and once every close() has returned no session opened by
\* the adapter is left open and unreferenced by it.
C38_OnePooledSession ==
    /\ Cardinality(OpenSessions) <= 1
    /\ (pool.closes # <<>> /\ \A c \in 1..Len(pool.closes) : pool.closes[c].pc = "returned") =>
           \A i \in OpenSessions : pool.session = i

-----------------------------------------------------------------------------
(* Claims about the fingerprint, checked under SpecFingerprint. *)

\* The inputs a and b differ in exactly one of text, backend, p1, p2.
DifferInOne(a, b) ==
    Cardinality({f \in {"backend", "text", "p1", "p2"} : a[f] # b[f]}) = 1

\* C9: the fingerprint is a function of (text, backend identity, voice
\* parameters) and changing any one of these inputs changes the fingerprint.
C9_FingerprintSeparatesInputs ==
    (fpOut # <<>> /\ DifferInOne(fpIn.a, fpIn.b)) => fpOut[1] # fpOut[2]

=============================================================================
